---- MODULE Spec2Model ----
(***************************************************************************)
(* Model of the cleon session/process bridge.                              *)
(*                                                                         *)
(*   SharedSession (backend.py / magic.py): one external agent process,    *)
(*   the module-wide turn lock and the turn protocol of send().            *)
(*   Turn scheduler (magic.py): the request queue, the background worker   *)
(*   loop, _start_worker_thread / _stop_worker_thread and the /stop        *)
(*   command.                                                              *)
(*                                                                         *)
(* The specifications share the actions of send():                         *)
(*   Spec        caller threads invoke send() concurrently on one session  *)
(*   TurnSpec    one caller, every kind of output line and callback        *)
(*   WorkerSpec  the notebook thread enqueues requests, starts and stops   *)
(*               workers; workers run _process_codex_request               *)
(*   MetaSpec    payloads offered to _capture_session_metadata             *)
(*   LifeSpec    ensure_started() and stop() between turns                 *)
(*   BleedSpec   output that arrives between two turns                     *)
(*   DrainSpec   _drain_stdout on a channel closed for writing             *)
(*   CtxSpec     ContextTracker.build_block over the execution log         *)
(*   RaceSpec    stop() on one thread while another thread is in send()    *)
(*   PipeSpec    a session whose process object has no stdin pipe          *)
(*   ResumeSpec  launches of a session that learns its session id          *)
(*   TemplateSpec prompts and the /new command in synchronous mode         *)
(*   AsyncSpec   the scheduler together with /new and the sends            *)
(*   ResolveSpec CodexBackend(...) looking for the cleon binary            *)
(***************************************************************************)
EXTENDS Naturals, Integers, Sequences, FiniteSets, TLC

(* ------------------------------ bounds -------------------------------- *)
MaxSends == 2
MaxOut == 2
MaxReq == 2
MaxQueues == 2
MaxSessions == 2
MaxCapt == 3
MaxStops == 2
MaxStarts == 1
MaxDrains == 2
MaxLog == 3
LongCell == 3
MaxBackends == 2

(* --------------------------- program constants ------------------------ *)
DrainCap == 50

(* ------------------------------ values -------------------------------- *)
\* Python None; json.loads maps JSON null to the same object
None == "None"
NoProc == 0
NoSession == 0
NoQueue == 0
\* the poison pill _stop_worker_thread puts on the queue (None)
Sentinel == 0
Unlocked == "unlocked"
NL == "\n"
\* the visible separator token: space, U+23CE RETURN SYMBOL, space
SEP == " <U+23CE> "

Callers == {"c1", "c2"}
Workers == {"w1", "w2"}
Threads == Callers \cup Workers
\* every send() and every direct ensure_started() spawns at most one process
MaxProcs == (IF MaxSends > MaxReq THEN MaxSends ELSE MaxReq) + MaxStarts
Pids == 1..MaxProcs
SessionIds == 1..MaxSessions
QueueIds == 1..MaxQueues
Requests == 1..MaxReq

\* a prompt is a sequence of characters; "x" and "y" stand for non-newline text
Prompts == {<<"x">>, <<"x", NL, "y">>}

\* one raw output line of the process, by what json.loads and the type tests
\* of send() make of it
Line(j, d, ty, hr, r) == [json |-> j, dict |-> d, type |-> ty, hasResult |-> hr, result |-> r]
Garbage == Line(FALSE, FALSE, "", FALSE, None)
NonObject == Line(TRUE, FALSE, "", FALSE, None)
OtherEvent == Line(TRUE, TRUE, "token", FALSE, None)
ApprovalRequest == Line(TRUE, TRUE, "approval.request", FALSE, None)
ResultOk == Line(TRUE, TRUE, "turn.result", TRUE, "ok")
ResultNull == Line(TRUE, TRUE, "turn.result", TRUE, None)
ResultMissing == Line(TRUE, TRUE, "turn.result", FALSE, None)
Lines == {Garbage, NonObject, OtherEvent, ApprovalRequest, ResultOk, ResultNull, ResultMissing}
\* the lines the agent emits in the specifications about concurrency and scheduling
ConcLines == {ResultOk, NonObject}

\* an on_event callback: none passed, one that returns, one that raises
EventCallbacks == {"none", "ok", "raises"}

\* what a call of on_approval can do: return None, "", a decision, or raise
Raise == "<raise>"
Decisions == {None, "", "approve"}
ApprovalOutcomes == Decisions \cup {Raise}

VARIABLES
  SESSION_LOCK,  \* _SESSION_LOCK: Unlocked or the thread inside "with _SESSION_LOCK"
  proc,          \* SharedSession.proc per session object (NoProc = None)
  first_turn,    \* SharedSession.first_turn per session object
  nsessions,     \* number of SharedSession objects constructed so far
  procs,         \* the external processes: alive, stdout pipe, lines received on stdin
  nprocs,        \* number of processes spawned so far
  emitted,       \* number of output lines emitted so far (bounded by MaxOut)
  pc,            \* position of each thread
  tsession,      \* the session object a thread's send() runs on (self)
  prompt,        \* send(): prompt argument
  on_approval,   \* send(): TRUE iff an on_approval callback was passed
  on_event,      \* send(): the on_event callback passed ("none" = None)
  events,        \* send(): events
  final,         \* send(): final
  outcome,       \* how the thread's last send() ended
  tio,           \* per thread: the I/O operations of its current turn, in order
  submitted,     \* tickets of send() calls in call order
  acquired,      \* tickets of send() calls in lock acquisition order
  ticket,        \* ticket of each thread's current send() call
  prev,          \* the send() that finished last: ticket, outcome, process used
  SESSION,       \* magic._SESSION: the current session object (NoSession = None)
  CODEX_QUEUE,   \* magic._CODEX_QUEUE: the current queue object (NoQueue = None)
  WORKER_THREAD, \* magic._WORKER_THREAD: a worker thread or None
  queues,        \* the queue.Queue objects created so far: their items
  nqueues,       \* number of queue objects created so far
  mainpc,        \* the notebook thread: "idle", or "joining" inside _stop_worker_thread
  request,       \* per worker: the request it has taken from the queue (0 = none)
  nreq,          \* number of prompts submitted through the magic in async mode
  display,       \* per request: what its display handle shows
  queued,        \* the requests that were put on a queue
  taken,         \* per request: how many times a worker took it from a queue
  stopping,      \* per worker: the sentinel was enqueued for it
  meta,          \* per session object: session_id, resume_command, rollout_path
  ncapt,         \* number of payloads offered to _capture_session_metadata directly
  stopped,       \* SharedSession.stopped per session object
  stopres,       \* stop() calls so far, and how the last one ended: "returned" or "raised"
  nstarts,       \* number of processes started or attached outside send() so far
  lastdrain,     \* the last direct _drain_stdout call: lines buffered before and after
  last_seen,     \* ContextTracker.last_seen
  In,            \* the notebook's execution log: ip.user_ns["In"]
  block,         \* the cells of the block the last build_block call returned
  lastcall,      \* the arguments of the last build_block call
  nopeek,        \* the cursor and the last block of a tracker that sees the same
                 \* build_block calls, the peeks left out
  binary,        \* os.environ["CLEON_BIN"], the files that exist, and the last
                 \* CodexBackend(...) construction: its arguments and its outcome
  afterstop      \* the /stop command has returned and no prompt was submitted since

sendvars == <<SESSION_LOCK, proc, first_turn, nsessions, procs, nprocs, emitted, pc,
              tsession, prompt, on_approval, on_event, events, final, outcome, tio,
              submitted, acquired, ticket, prev>>
schedvars == <<SESSION, CODEX_QUEUE, WORKER_THREAD, queues, nqueues, mainpc, request,
               nreq, display, queued, taken, stopping>>
metavars == <<meta, ncapt>>
lifevars == <<stopped, stopres, nstarts>>
drainvars == <<lastdrain>>
ctxvars == <<last_seen, In, block, lastcall, nopeek>>
magicvars == <<binary, afterstop>>
auxvars == <<metavars, lifevars, drainvars, ctxvars, magicvars>>
vars == <<sendvars, schedvars, auxvars>>

(* ------------------------------ helpers ------------------------------- *)
RECURSIVE Replace(_, _, _)
\* str.replace(old, new) over a sequence of characters
Replace(s, old, new) ==
  IF s = <<>> THEN <<>>
  ELSE (IF Head(s) = old THEN <<new>> ELSE <<Head(s)>>) \o Replace(Tail(s), old, new)

\* faulty variant: the prompt is written as it is, newlines included
SingleLinePromptRaw(p) == p

\* single_line_prompt = prompt.replace("\n", " <sep> ")
SingleLinePrompt(p) == Replace(p, NL, SEP)

Min(a, b) == IF a < b THEN a ELSE b

\* faulty variant: a drain reads until nothing is buffered
DrainedAll(buf) == <<>>

\* _drain_stdout: read buffered lines while the pipe is ready, at most DrainCap
Drained(buf) == SubSeq(buf, Min(Len(buf), DrainCap) + 1, Len(buf))

\* the lines one _drain_stdout call reads
DrainRead(buf) == SubSeq(buf, 1, Min(Len(buf), DrainCap))

\* faulty variant: send() does not wait for the lock
CanAcquireAlways(l) == TRUE

\* "with _SESSION_LOCK": the lock can be taken only when nobody holds it
CanAcquire(l) == l = Unlocked

\* faulty variant: whatever on_approval returns is written
ShouldRelayAlways(d) == TRUE

\* faulty variant: a decision is never written back
ShouldRelayNever(d) == FALSE

\* "if decision:" - a decision is relayed only if it is a non-empty string
ShouldRelay(d) == d # None /\ d # ""

\* faulty variant: every line is taken as parsed
ParsesAnything(line) == TRUE

\* json.loads(raw) succeeds
Parses(line) == line.json

\* faulty variant: an exception of on_event leaves send()
OnEventCaughtNothing(err) == FALSE

\* "try: on_event(parsed) / except Exception: pass"
OnEventCaught(err) == TRUE

\* _chain._inner: each wrapped callback is called inside try/except Exception
ChainCatches(err) == TRUE

\* the callback _chain(first, second) builds: it calls both, and raises only
\* if one of them raises and the exception is not caught
Chain(first, second) ==
  IF (first = "raises" \/ second = "raises") /\ ~ChainCatches("Exception") THEN "raises"
  ELSE "ok"

\* the terminal test of the read loop
IsTerminal(line) == line.dict /\ line.type = "turn.result" /\ line.hasResult

\* "if final is None: raise RuntimeError(...)"
MissingResult(f) == f = None

\* faulty variant: ensure_started only tests that a process handle exists
RunningIgnoresPoll(p) == p # NoProc

\* proc.poll() is None
Running(p) == p # NoProc /\ procs[p].alive

\* a process: running or not, its stdout pipe (buffered lines, closed for
\* writing or not), the lines it received on stdin; stale counts the buffered
\* lines at the head of out that were emitted before the latest prompt line was
\* written, ft is the value of first_turn when ensure_started had started it,
\* stdin is whether the process object has a stdin pipe (proc.stdin is not None),
\* cmd holds the arguments of the launch command after the two fixed flags, sid
\* is the session_id of the session object when the process was launched
NewProc == [alive |-> TRUE, out |-> <<>>, closed |-> FALSE, inp |-> <<>>, stale |-> 0,
            ft |-> TRUE, stdin |-> TRUE, cmd |-> <<>>, sid |-> None]
DeadProc == [alive |-> FALSE, out |-> <<>>, closed |-> TRUE, inp |-> <<>>, stale |-> 0,
             ft |-> TRUE, stdin |-> TRUE, cmd |-> <<>>, sid |-> None]

\* faulty variant: send() writes without looking at proc.stdin
StdinAvailableAlways(p) == TRUE

\* faulty variant: the resume flag is passed whenever session_id is not None
LaunchCommandNotNone(sid) == IF sid # None THEN <<"--resume", sid>> ELSE <<>>

\* "if self.session_id: cmd.extend(["--resume", self.session_id])"
LaunchCommand(sid) == IF sid \notin {None, ""} THEN <<"--resume", sid>> ELSE <<>>

\* "self.proc.stdin is None" is false
StdinAvailable(p) == p.stdin

\* ensure_started: subprocess.Popen(...); first_turn is left as it is
Spawned(s) == [NewProc EXCEPT !.ft = first_turn[s],
                              !.cmd = LaunchCommand(meta[s].session_id),
                              !.sid = meta[s].session_id]

\* the lines at the head of the buffer that are still stale after n were read
StaleAfter(stale, n) == IF stale > n THEN stale - n ELSE 0

(* ----------------------- session metadata capture --------------------- *)
\* a key that a JSON object does not have
Absent == "<absent>"
\* the JSON strings of the payloads; "" is the empty string
Strs == {"", "a", "b", "c"}
\* faulty variant: null passes for a string
IsStrOrNull(v) == v \in Strs \cup {None}

\* isinstance(v, str)
IsStr(v) == v \in Strs

\* payload.get(key), with Absent for a missing key
Get(pl, key) == IF key \in DOMAIN pl THEN pl[key] ELSE Absent

\* the "msg" member of a payload: missing, not an object, or an object
NoMsg == [present |-> FALSE, dict |-> FALSE, session_id |-> Absent, rollout_path |-> Absent]
NonDictMsg == [present |-> TRUE, dict |-> FALSE, session_id |-> Absent, rollout_path |-> Absent]
Msg(pl) == IF "msg" \in DOMAIN pl THEN pl.msg ELSE NoMsg

\* the value the "if self.<field> is None" block finds for a field: the
\* payload's own member if it is a string, else the member of payload["msg"]
Fallback(pl, key) ==
  IF IsStr(Get(pl, key)) THEN Get(pl, key)
  ELSE IF Msg(pl).present /\ Msg(pl).dict /\ IsStr(Msg(pl)[key]) THEN Msg(pl)[key]
  ELSE None

\* "if isinstance(payload.get(key), str): self.<field> = payload[key]"
ResumeValue(old, v) == IF IsStr(v) THEN v ELSE old

\* _capture_session_metadata(payload) applied to the fields m
Capture(m, pl) ==
  IF ~pl.dict THEN m
  ELSE LET resume == Get(pl, "type") = "session.resume"
           sid == IF resume THEN ResumeValue(m.session_id, Get(pl, "session_id"))
                  ELSE m.session_id
           cmd == IF resume THEN ResumeValue(m.resume_command, Get(pl, "resume_command"))
                  ELSE m.resume_command
           rp == IF resume THEN ResumeValue(m.rollout_path, Get(pl, "rollout_path"))
                 ELSE m.rollout_path
       IN [session_id |-> IF sid = None THEN Fallback(pl, "session_id") ELSE sid,
           resume_command |-> cmd,
           rollout_path |-> IF rp = None THEN Fallback(pl, "rollout_path") ELSE rp]

\* _maybe_parse over the lines a drain reads: capture from those that parse,
\* one line after the other (the fields after a line are computed before the
\* next line is looked at)
RECURSIVE CaptureRange(_, _, _, _)
CaptureRange(m, lines, lo, hi) ==
  IF lo > hi THEN m
  ELSE IF lo = hi
       THEN IF Parses(lines[lo]) THEN Capture(m, lines[lo]) ELSE m
       ELSE LET mid == (lo + hi) \div 2
                half == CaptureRange(m, lines, lo, mid)
            IN IF half = m THEN CaptureRange(m, lines, mid + 1, hi)
               ELSE CaptureRange(half, lines, mid + 1, hi)

CaptureAll(m, lines) == CaptureRange(m, lines, 1, Len(lines))

\* the values a payload member can have: missing, null, a string
Values == {Absent, None} \cup (Strs \ {"c"})
MsgValues == {Absent, "", "c"}
Msgs == {NoMsg, NonDictMsg} \cup
        {[present |-> TRUE, dict |-> TRUE, session_id |-> a, rollout_path |-> b] :
            a \in MsgValues, b \in MsgValues}
\* the parsed payloads offered to metadata capture
Payloads ==
  {[dict |-> TRUE, type |-> ty, session_id |-> a, resume_command |-> b, rollout_path |-> c,
    msg |-> m] : ty \in {"session.resume", "token"}, a \in Values, b \in Values,
                 c \in Values, m \in Msgs}
  \cup {[dict |-> FALSE, type |-> "", session_id |-> Absent, resume_command |-> Absent,
         rollout_path |-> Absent, msg |-> NoMsg]}

(* ------------------------- SharedSession.send ------------------------- *)
\* the caller enters send(prompt, on_event, on_approval) on session s
SendCall(t, s, p, cb, ev) ==
  /\ pc[t] = "idle"
  /\ Len(submitted) < MaxSends
  /\ pc' = [pc EXCEPT ![t] = "waiting"]
  /\ tsession' = [tsession EXCEPT ![t] = s]
  /\ prompt' = [prompt EXCEPT ![t] = p]
  /\ on_approval' = [on_approval EXCEPT ![t] = cb]
  /\ on_event' = [on_event EXCEPT ![t] = ev]
  /\ ticket' = [ticket EXCEPT ![t] = Len(submitted) + 1]
  /\ submitted' = Append(submitted, Len(submitted) + 1)
  /\ UNCHANGED <<schedvars, auxvars>>
  /\ UNCHANGED <<SESSION_LOCK, proc, first_turn, nsessions, procs, nprocs, emitted,
                 events, final, outcome, tio, acquired, prev>>

\* with _SESSION_LOCK:
SendAcquire(t) ==
  /\ pc[t] = "waiting"
  /\ CanAcquire(SESSION_LOCK)
  /\ SESSION_LOCK' = t
  /\ pc' = [pc EXCEPT ![t] = "locked"]
  /\ acquired' = Append(acquired, ticket[t])
  /\ UNCHANGED <<schedvars, auxvars>>
  /\ UNCHANGED <<proc, first_turn, nsessions, procs, nprocs, emitted, tsession, prompt,
                 on_approval, on_event, events, final, outcome, tio, submitted, ticket, prev>>

\* ensure_started(); _drain_stdout(); write the prompt line; first_turn = False
SendWritePrompt(t) ==
  LET s == tsession[t]
      spawn == ~Running(proc[s])
      p == IF spawn THEN nprocs + 1 ELSE proc[s]
      line == [kind |-> "prompt", text |-> SingleLinePrompt(prompt[t]), turn |-> ticket[t],
               raw |-> prompt[t]]
      base == IF spawn THEN Spawned(s) ELSE procs[p]
  IN /\ pc[t] = "locked"
     /\ StdinAvailable(base)
     /\ nprocs' = IF spawn THEN nprocs + 1 ELSE nprocs
     /\ proc' = [proc EXCEPT ![s] = p]
     /\ procs' = [procs EXCEPT ![p] = [base EXCEPT !.out = Drained(base.out),
                                                   !.stale = Len(Drained(base.out)),
                                                   !.inp = Append(base.inp, line)]]
     /\ meta' = [meta EXCEPT ![s] = CaptureAll(@, DrainRead(base.out))]
     /\ first_turn' = [first_turn EXCEPT ![s] = FALSE]
     /\ events' = [events EXCEPT ![t] = <<>>]
     /\ final' = [final EXCEPT ![t] = None]
     /\ tio' = [tio EXCEPT ![t] = <<[op |-> "write", what |-> "prompt", pid |-> p, decision |-> "-", delivered |-> "-", stale |-> FALSE]>>]
     /\ pc' = [pc EXCEPT ![t] = "reading"]
     /\ UNCHANGED <<schedvars, ncapt, lifevars, drainvars, magicvars, ctxvars>>
     /\ UNCHANGED <<SESSION_LOCK, nsessions, emitted, tsession, prompt, on_approval, on_event,
                    outcome, submitted, acquired, ticket, prev>>

\* faulty variant: an exception leaves send() with the lock still held
SendRaiseKeepsLock(t, err) ==
  /\ SESSION_LOCK' = SESSION_LOCK
  /\ pc' = [pc EXCEPT ![t] = "done"]
  /\ outcome' = [outcome EXCEPT ![t] = err]
  /\ prev' = [turn |-> ticket[t], outcome |-> err, pid |-> proc[tsession[t]]]

\* leaving the "with" block by an exception: the lock is released
SendRaise(t, err) ==
  /\ SESSION_LOCK' = Unlocked
  /\ pc' = [pc EXCEPT ![t] = "done"]
  /\ outcome' = [outcome EXCEPT ![t] = err]
  /\ prev' = [turn |-> ticket[t], outcome |-> err, pid |-> proc[tsession[t]]]

\* ensure_started(); _drain_stdout(); proc.stdin is None: RuntimeError
SendPipeUnavailable(t) ==
  LET s == tsession[t]
      p == proc[s]
  IN /\ pc[t] = "locked"
     /\ Running(p)
     /\ ~StdinAvailable(procs[p])
     /\ procs' = [procs EXCEPT ![p].out = Drained(@),
                               ![p].stale = StaleAfter(@, Len(DrainRead(procs[p].out)))]
     /\ meta' = [meta EXCEPT ![s] = CaptureAll(@, DrainRead(procs[p].out))]
     /\ SendRaise(t, "PipeUnavailable")
     /\ UNCHANGED <<schedvars, ncapt, lifevars, drainvars, magicvars, ctxvars>>
     /\ UNCHANGED <<proc, first_turn, nsessions, nprocs, emitted, tsession, prompt,
                    on_approval, on_event, events, final, tio, submitted, acquired, ticket>>

\* one iteration of "for raw in self._read_lines()" on a line that is available
SendReadLine(t, d) ==
  LET s == tsession[t]
      p == proc[s]
      line == Head(procs[p].out)
      isApproval == line.json /\ line.dict /\ line.type = "approval.request"
      called == isApproval /\ on_approval[t]
      rd == [op |-> "read", what |-> line.type, pid |-> p,
             decision |-> IF called THEN d ELSE "-", delivered |-> "-",
             stale |-> procs[p].stale > 0]
      \* what the call of on_event does on this line ("-": there is no callback)
      ev == IF on_event[t] = "none" THEN "-" ELSE IF on_event[t] = "raises" THEN Raise ELSE "ok"
      escapes == ev = Raise /\ ~OnEventCaught("Exception")
      wr == [op |-> "write", what |-> "decision", pid |-> p, decision |-> d, delivered |-> "-",
             stale |-> FALSE]
      relay == called /\ d # Raise /\ ShouldRelay(d)
  IN /\ pc[t] = "reading"
     /\ p # NoProc
     /\ procs[p].out # <<>>
     /\ called \/ d = None
     /\ IF ~Parses(line) THEN
          \* json.loads fails: continue
          /\ procs' = [procs EXCEPT ![p].out = Tail(@), ![p].stale = StaleAfter(@, 1)]
          /\ tio' = [tio EXCEPT ![t] = Append(@, [rd EXCEPT !.what = "garbage"])]
          /\ UNCHANGED <<SESSION_LOCK, pc, outcome, prev, events, final>>
        ELSE IF ~line.dict THEN
          \* parsed.get on a value that is not a dict: AttributeError leaves send
          /\ procs' = [procs EXCEPT ![p].out = Tail(@), ![p].stale = StaleAfter(@, 1)]
          /\ tio' = [tio EXCEPT ![t] = Append(@, [rd EXCEPT !.what = "nonobject"])]
          /\ events' = [events EXCEPT ![t] = Append(@, line)]
          /\ SendRaise(t, "AttributeError")
          /\ UNCHANGED final
        ELSE IF called /\ d = Raise THEN
          \* on_approval raises: nothing catches it inside send
          /\ procs' = [procs EXCEPT ![p].out = Tail(@), ![p].stale = StaleAfter(@, 1)]
          /\ tio' = [tio EXCEPT ![t] = Append(@, rd)]
          /\ events' = [events EXCEPT ![t] = Append(@, line)]
          /\ SendRaise(t, "ApprovalCallbackError")
          /\ UNCHANGED final
        ELSE IF relay THEN
          \* write the decision line and continue
          /\ procs' = [procs EXCEPT ![p].out = Tail(@), ![p].stale = StaleAfter(@, 1),
                                    ![p].inp = Append(@, [kind |-> "decision", text |-> <<d>>,
                                                          turn |-> ticket[t], raw |-> <<d>>])]
          /\ tio' = [tio EXCEPT ![t] = Append(Append(@, rd), wr)]
          /\ events' = [events EXCEPT ![t] = Append(@, line)]
          /\ UNCHANGED <<SESSION_LOCK, pc, outcome, prev, final>>
        ELSE IF escapes THEN
          \* an exception of on_event that the try/except around the call lets through
          /\ procs' = [procs EXCEPT ![p].out = Tail(@), ![p].stale = StaleAfter(@, 1)]
          /\ tio' = [tio EXCEPT ![t] = Append(@, [rd EXCEPT !.delivered = ev])]
          /\ events' = [events EXCEPT ![t] = Append(@, line)]
          /\ SendRaise(t, "EventCallbackError")
          /\ UNCHANGED final
        ELSE
          \* on_event (errors swallowed), then the terminal test
          /\ procs' = [procs EXCEPT ![p].out = Tail(@), ![p].stale = StaleAfter(@, 1)]
          /\ tio' = [tio EXCEPT ![t] = Append(@, [rd EXCEPT !.delivered = ev])]
          /\ events' = [events EXCEPT ![t] = Append(@, line)]
          /\ final' = [final EXCEPT ![t] = IF IsTerminal(line) THEN line.result ELSE @]
          /\ pc' = [pc EXCEPT ![t] = IF IsTerminal(line) THEN "draining" ELSE @]
          /\ UNCHANGED <<SESSION_LOCK, outcome, prev>>
     \* _capture_session_metadata(parsed), for every line that parses
     /\ meta' = [meta EXCEPT ![s] = IF Parses(line) THEN Capture(@, line) ELSE @]
     /\ UNCHANGED <<schedvars, ncapt, lifevars, drainvars, magicvars, ctxvars>>
     /\ UNCHANGED <<proc, first_turn, nsessions, nprocs, emitted, tsession, prompt,
                    on_approval, on_event, submitted, acquired, ticket>>

\* readline() returns "" : the channel is closed and nothing is buffered
SendReadEOF(t) ==
  LET p == proc[tsession[t]]
  IN /\ pc[t] = "reading"
     /\ p # NoProc
     /\ procs[p].out = <<>>
     /\ procs[p].closed
     /\ pc' = [pc EXCEPT ![t] = "draining"]
     /\ tio' = [tio EXCEPT ![t] = Append(@, [op |-> "read", what |-> "eof", pid |-> p, decision |-> "-", delivered |-> "-", stale |-> FALSE])]
     /\ UNCHANGED <<schedvars, auxvars>>
     /\ UNCHANGED <<SESSION_LOCK, proc, first_turn, nsessions, procs, nprocs, emitted,
                    tsession, prompt, on_approval, on_event, events, final, outcome, submitted,
                    acquired, ticket, prev>>

\* the two trailing drains, then raise or return (final, events)
SendFinish(t) ==
  LET p == proc[tsession[t]]
      err == IF MissingResult(final[t]) THEN "MissingTurnResult" ELSE "ok"
  IN /\ pc[t] = "draining"
     /\ p # NoProc
     /\ procs' = [procs EXCEPT ![p].out = Drained(Drained(@)),
                               ![p].stale = StaleAfter(@, Len(procs[p].out) - Len(Drained(Drained(procs[p].out))))]
     /\ SESSION_LOCK' = Unlocked
     /\ pc' = [pc EXCEPT ![t] = "done"]
     /\ outcome' = [outcome EXCEPT ![t] = err]
     /\ prev' = [turn |-> ticket[t], outcome |-> err, pid |-> p]
     /\ UNCHANGED <<schedvars, auxvars>>
     /\ UNCHANGED <<proc, first_turn, nsessions, nprocs, emitted, tsession, prompt,
                    on_approval, on_event, events, final, tio, submitted, acquired, ticket>>

\* the caller takes the result (or the exception) and may call again
SendReturn(t) ==
  /\ pc[t] = "done"
  /\ pc' = [pc EXCEPT ![t] = "idle"]
  /\ events' = [events EXCEPT ![t] = <<>>]
  /\ final' = [final EXCEPT ![t] = None]
  /\ tio' = [tio EXCEPT ![t] = <<>>]
  /\ prompt' = [prompt EXCEPT ![t] = <<>>]
  /\ on_approval' = [on_approval EXCEPT ![t] = FALSE]
  /\ on_event' = [on_event EXCEPT ![t] = "none"]
  /\ outcome' = [outcome EXCEPT ![t] = "none"]
  /\ ticket' = [ticket EXCEPT ![t] = 0]
  /\ UNCHANGED <<schedvars, auxvars>>
  /\ UNCHANGED <<SESSION_LOCK, proc, first_turn, nsessions, procs, nprocs, emitted,
                 tsession, submitted, acquired, prev>>

(* ------------------------ the external process ------------------------ *)
\* the agent writes one line to its stdout
ProcEmit(p, line) ==
  /\ p \in 1..nprocs
  /\ procs[p].alive /\ ~procs[p].closed
  /\ emitted < MaxOut
  /\ emitted' = emitted + 1
  /\ procs' = [procs EXCEPT ![p].out = Append(@, line)]
  /\ UNCHANGED <<schedvars, auxvars>>
  /\ UNCHANGED <<SESSION_LOCK, proc, first_turn, nsessions, nprocs, pc, tsession, prompt,
                 on_approval, on_event, events, final, outcome, tio, submitted, acquired, ticket,
                 prev>>

\* the agent closes its stdout and keeps running
ProcCloseOutput(p) ==
  /\ p \in 1..nprocs
  /\ procs[p].alive /\ ~procs[p].closed
  /\ procs' = [procs EXCEPT ![p].closed = TRUE]
  /\ UNCHANGED <<schedvars, auxvars>>
  /\ UNCHANGED <<SESSION_LOCK, proc, first_turn, nsessions, nprocs, emitted, pc, tsession,
                 prompt, on_approval, on_event, events, final, outcome, tio, submitted, acquired,
                 ticket, prev>>

\* the agent exits: poll() is no longer None, its stdout is at end of data
ProcExit(p) ==
  /\ p \in 1..nprocs
  /\ procs[p].alive
  /\ procs' = [procs EXCEPT ![p].alive = FALSE, ![p].closed = TRUE]
  /\ UNCHANGED <<schedvars, auxvars>>
  /\ UNCHANGED <<SESSION_LOCK, proc, first_turn, nsessions, nprocs, emitted, pc, tsession,
                 prompt, on_approval, on_event, events, final, outcome, tio, submitted, acquired,
                 ticket, prev>>

(* ------------------- Spec: concurrent callers of send ----------------- *)
\* the scheduler before register_magic(async_mode=True) was ever called
SchedInit ==
  /\ SESSION = NoSession
  /\ CODEX_QUEUE = NoQueue
  /\ WORKER_THREAD = None
  /\ queues = [q \in QueueIds |-> <<>>]
  /\ nqueues = 0
  /\ mainpc = "idle"
  /\ request = [w \in Workers |-> 0]
  /\ nreq = 0
  /\ display = [r \in Requests |-> "none"]
  /\ queued = {}
  /\ taken = [r \in Requests |-> 0]
  /\ stopping = [w \in Workers |-> FALSE]

SendInit(n) ==
  /\ SESSION_LOCK = Unlocked
  /\ nsessions = n
  /\ proc = [s \in SessionIds |-> NoProc]
  /\ first_turn = [s \in SessionIds |-> TRUE]
  /\ procs = [p \in Pids |-> DeadProc]
  /\ nprocs = 0
  /\ emitted = 0
  /\ pc = [t \in Threads |-> IF t \in Callers THEN "idle" ELSE "unborn"]
  /\ tsession = [t \in Threads |-> 1]
  /\ prompt = [t \in Threads |-> <<>>]
  /\ on_approval = [t \in Threads |-> FALSE]
  /\ on_event = [t \in Threads |-> "none"]
  /\ events = [t \in Threads |-> <<>>]
  /\ final = [t \in Threads |-> None]
  /\ outcome = [t \in Threads |-> "none"]
  /\ tio = [t \in Threads |-> <<>>]
  /\ submitted = <<>>
  /\ acquired = <<>>
  /\ ticket = [t \in Threads |-> 0]
  /\ prev = [turn |-> 0, outcome |-> "none", pid |-> NoProc]

\* SharedSession.__init__: nothing learned about the agent's session yet
NoMeta == [session_id |-> None, resume_command |-> None, rollout_path |-> None]

MetaVarsInit ==
  /\ meta = [s \in SessionIds |-> NoMeta]
  /\ ncapt = 0

LifeVarsInit ==
  /\ stopped = [s \in SessionIds |-> FALSE]
  /\ stopres = [calls |-> 0, result |-> "none"]
  /\ nstarts = 0

DrainVarsInit == lastdrain = [calls |-> 0, before |-> 0, after |-> 0]

\* an optional int argument: None or a number
NoLimit == [given |-> FALSE, n |-> 0]
Limit(k) == [given |-> TRUE, n |-> k]

\* no build_block call has been made
NoCall == [kind |-> "none", max_cells |-> NoLimit, max_chars |-> NoLimit, ip |-> FALSE]

\* an entry of the notebook's In list with its Out entry: whether it is a str,
\* the form of its stripped text, the length of that text, and the length of
\* str(Out[idx]) (0 when the cell has no output)
Cell(s, f, n, o) == [str |-> s, form |-> f, len |-> n, out |-> o]
EmptyCell == Cell(TRUE, "code", 0, 0)
NonStrCell == Cell(FALSE, "code", 0, 0)
\* the texts that invoke the system's commands: the two cell magics, a line
\* magic, and the forms IPython turns a cell magic and a line magic into
MagicForms == {"%%codex", "%%cleon_history", "%line", "run_cell_magic('codex'",
               "run_line_magic("}
Cells == {NonStrCell} \cup {Cell(TRUE, f, 1, 0) : f \in MagicForms}
         \cup {Cell(TRUE, "code", 1, 0), Cell(TRUE, "code", LongCell, 1),
                Cell(TRUE, "code", 1, LongCell)}

\* text.startswith("%"), which text.startswith("%%codex") and
\* text.startswith("%%cleon_history") imply
StartsWithPercent(cell) == cell.form \in {"%%codex", "%%cleon_history", "%line"}

\* faulty variant: only texts that start with % are skipped
SkippedByPercent(cell) == StartsWithPercent(cell)

\* the condition under which build_block skips an entry that is a str
Skipped(cell) ==
  \/ StartsWithPercent(cell)
  \/ cell.form = "run_cell_magic('codex'"
  \/ cell.form = "run_line_magic("

\* ContextTracker.__init__, and a fresh IPython whose In list holds one empty entry
CtxVarsInit ==
  /\ last_seen = 0
  /\ In = <<EmptyCell>>
  /\ block = <<>>
  /\ lastcall = NoCall
  /\ nopeek = [last_seen |-> 0, block |-> <<>>, peeked |-> FALSE]

\* no backend constructed, CLEON_BIN not set, no file looked at; no /stop yet
NoBinary == [environ |-> None, files |-> {}, pkg |-> None, which |-> None, target |-> None,
             calls |-> 0, explicit |-> None, envcall |-> None, result |-> None,
             raised |-> FALSE]

MagicVarsInit ==
  /\ binary = NoBinary
  /\ afterstop = FALSE

AuxInit == MetaVarsInit /\ LifeVarsInit /\ DrainVarsInit /\ CtxVarsInit /\ MagicVarsInit

\* one SharedSession has been constructed, nothing is running
Init == SendInit(1) /\ SchedInit /\ AuxInit

Next ==
  \/ \E t \in Callers, p \in Prompts : SendCall(t, 1, p, TRUE, "ok")
  \/ \E t \in Callers : SendAcquire(t)
  \/ \E t \in Callers : SendWritePrompt(t)
  \/ \E t \in Callers : SendReadLine(t, None)
  \/ \E t \in Callers : SendReadEOF(t)
  \/ \E t \in Callers : SendFinish(t)
  \/ \E t \in Callers : SendReturn(t)
  \/ \E p \in Pids, line \in ConcLines : ProcEmit(p, line)
  \/ \E p \in Pids : ProcCloseOutput(p)
  \/ \E p \in Pids : ProcExit(p)

Spec == Init /\ [][Next]_vars

(* ---------------- TurnSpec: one caller, every kind of line ------------ *)
TurnNext ==
  \/ \E p \in Prompts, cb \in BOOLEAN, ev \in EventCallbacks : SendCall("c1", 1, p, cb, ev)
  \/ SendAcquire("c1")
  \/ SendWritePrompt("c1")
  \/ \E d \in ApprovalOutcomes : SendReadLine("c1", d)
  \/ SendReadEOF("c1")
  \/ SendFinish("c1")
  \/ SendReturn("c1")
  \/ \E p \in Pids, line \in Lines : ProcEmit(p, line)
  \/ \E p \in Pids : ProcCloseOutput(p)
  \/ \E p \in Pids : ProcExit(p)

TurnSpec == Init /\ [][TurnNext]_vars

(* ------------- LifeSpec: ensure_started, send and stop calls ---------- *)
\* the line stop() writes to ask the agent to leave
StopLine == [kind |-> "stop", text |-> <<"__CLEON_STOP__">>, turn |-> 0,
             raw |-> <<"__CLEON_STOP__">>]

\* n copies of a line
Repeat(x, n) == [i \in 1..n |-> x]

\* a session.resume event with the session id and the resume command
ResumeLine == [json |-> TRUE, dict |-> TRUE, type |-> "session.resume", hasResult |-> FALSE,
               result |-> None, session_id |-> "b", resume_command |-> "c"]

\* what the agent writes when it has read the sentinel: nothing, the
\* session.resume event, or that event after DrainCap other lines
StopReplies == {<<>>, <<ResumeLine>>, Repeat(OtherEvent, DrainCap) \o <<ResumeLine>>}

\* the step of stop() that raises, if any: the sentinel write, a drain, terminate()
StopFailures == {"none", "write", "drain", "terminate"}

\* a direct call of ensure_started() on session s
EnsureStarted(t, s) ==
  LET spawn == ~Running(proc[s])
      p == nprocs + 1
  IN /\ pc[t] = "idle"
     /\ nstarts < MaxStarts
     /\ nstarts' = nstarts + 1
     /\ IF spawn
        THEN /\ nprocs' = p
             /\ proc' = [proc EXCEPT ![s] = p]
             /\ procs' = [procs EXCEPT ![p] = Spawned(s)]
        ELSE UNCHANGED <<nprocs, proc, procs>>
     /\ UNCHANGED <<schedvars, metavars, stopped, stopres, drainvars, magicvars, ctxvars>>
     /\ UNCHANGED <<SESSION_LOCK, first_turn, nsessions, emitted, pc, tsession, prompt,
                    on_approval, on_event, events, final, outcome, tio, submitted, acquired,
                    ticket, prev>>

\* stop() on session s. exits: the agent leaves within the grace period after
\* the sentinel; fail: the step inside the try block that raises; killfails:
\* kill() in the except branch raises. terminate() only sends the signal: the
\* agent is still running when stop() returns and exits later, if at all.
\* reply: the lines the agent writes after it has read the sentinel; an agent
\* that exits has exited before the wait loop polls again, so that the drain
\* after the loop is the one that reads them
StopCall(t, s, exits, fail, killfails, reply) ==
  LET p == proc[s]
      running == Running(p)
      buffered == procs[p].out \o reply
      \* an agent that stays is drained every 0.05 s for 5 s, which reads all it
      \* has written; for one that has exited there is the one drain after the loop
      read == IF exits THEN DrainRead(buffered) ELSE buffered
      rest == IF exits THEN Drained(buffered) ELSE <<>>
      except == running /\ (fail = "drain" \/ (fail = "terminate" /\ ~exits))
      raised == except /\ killfails
      wrote == running /\ fail # "write"
      drains == running /\ fail # "drain"
      gone == running /\ ((~except /\ exits) \/ (except /\ ~killfails))
  IN /\ pc[t] = "idle"
     /\ stopres.calls < MaxStops
     /\ reply # <<>> => wrote /\ ~procs[p].closed
     /\ procs' = IF running
                 THEN [procs EXCEPT
                         ![p].inp = IF wrote THEN Append(@, StopLine) ELSE @,
                         ![p].out = IF drains THEN rest ELSE buffered,
                         ![p].stale = IF drains THEN StaleAfter(@, Len(read)) ELSE @,
                         ![p].alive = IF gone THEN FALSE ELSE @,
                         ![p].closed = IF gone THEN TRUE ELSE @]
                 ELSE procs
     /\ meta' = IF drains THEN [meta EXCEPT ![s] = CaptureAll(@, read)]
                ELSE meta
     /\ IF raised
        THEN UNCHANGED <<proc, first_turn, stopped>>
        ELSE /\ proc' = [proc EXCEPT ![s] = NoProc]
             /\ first_turn' = [first_turn EXCEPT ![s] = TRUE]
             /\ stopped' = [stopped EXCEPT ![s] = TRUE]
     /\ stopres' = [calls |-> stopres.calls + 1,
                    result |-> IF raised THEN "raised" ELSE "returned"]
     /\ UNCHANGED <<schedvars, ncapt, nstarts, drainvars, magicvars, ctxvars>>
     /\ UNCHANGED <<SESSION_LOCK, nsessions, nprocs, emitted, pc, tsession, prompt,
                    on_approval, on_event, events, final, outcome, tio, submitted, acquired,
                    ticket, prev>>

LifeNext ==
  \/ \E p \in Prompts : SendCall("c1", 1, p, TRUE, "ok")
  \/ SendAcquire("c1")
  \/ SendWritePrompt("c1")
  \/ SendReadLine("c1", None)
  \/ SendReadEOF("c1")
  \/ SendFinish("c1")
  \/ SendReturn("c1")
  \/ EnsureStarted("c1", 1)
  \/ \E exits \in BOOLEAN, fail \in StopFailures, killfails \in BOOLEAN :
        \E reply \in StopReplies : StopCall("c1", 1, exits, fail, killfails, reply)
  \/ \E p \in Pids : ProcEmit(p, ResultOk)
  \/ \E p \in Pids : ProcExit(p)

LifeSpec == Init /\ [][LifeNext]_vars

(* ------- PipeSpec: a session whose process object has no stdin pipe ---- *)
\* the client gives the session a running process object whose stdin is None
\* ("sess.proc = DummyProc(rfile)")
AttachProc(s) ==
  LET p == nprocs + 1
  IN /\ \A t \in Callers : pc[t] = "idle"
     /\ nstarts < MaxStarts
     /\ nstarts' = nstarts + 1
     /\ nprocs' = p
     /\ proc' = [proc EXCEPT ![s] = p]
     /\ procs' = [procs EXCEPT ![p] = [NewProc EXCEPT !.stdin = FALSE]]
     /\ UNCHANGED <<schedvars, metavars, stopped, stopres, drainvars, magicvars, ctxvars>>
     /\ UNCHANGED <<SESSION_LOCK, first_turn, nsessions, emitted, pc, tsession, prompt,
                    on_approval, on_event, events, final, outcome, tio, submitted, acquired,
                    ticket, prev>>

PipeNext ==
  \/ \E p \in Prompts, cb \in BOOLEAN, ev \in EventCallbacks : SendCall("c1", 1, p, cb, ev)
  \/ SendAcquire("c1")
  \/ SendWritePrompt("c1")
  \/ SendPipeUnavailable("c1")
  \/ \E d \in ApprovalOutcomes : SendReadLine("c1", d)
  \/ SendReadEOF("c1")
  \/ SendFinish("c1")
  \/ SendReturn("c1")
  \/ AttachProc(1)
  \/ \E p \in Pids, line \in Lines : ProcEmit(p, line)
  \/ \E p \in Pids : ProcCloseOutput(p)
  \/ \E p \in Pids : ProcExit(p)

PipeSpec == Init /\ [][PipeNext]_vars

(* ------- RaceSpec: stop() from one thread while another is in send() --- *)
\* send() finds self.proc cleared under it: self.proc.stdout in _read_lines
\* raises AttributeError, the assert in _drain_stdout raises AssertionError
SendProcGone(t) ==
  /\ pc[t] \in {"reading", "draining"}
  /\ proc[tsession[t]] = NoProc
  /\ SendRaise(t, IF pc[t] = "reading" THEN "AttributeError" ELSE "AssertionError")
  /\ UNCHANGED <<schedvars, auxvars>>
  /\ UNCHANGED <<proc, first_turn, nsessions, procs, nprocs, emitted, tsession, prompt,
                 on_approval, on_event, events, final, tio, submitted, acquired, ticket>>

RaceNext ==
  \/ \E p \in Prompts : SendCall("c1", 1, p, TRUE, "ok")
  \/ SendAcquire("c1")
  \/ SendWritePrompt("c1")
  \/ SendReadLine("c1", None)
  \/ SendReadEOF("c1")
  \/ SendFinish("c1")
  \/ SendProcGone("c1")
  \/ SendReturn("c1")
  \/ \E exits \in BOOLEAN, fail \in StopFailures, killfails \in BOOLEAN :
        StopCall("c2", 1, exits, fail, killfails, <<>>)
  \/ \E p \in Pids : ProcEmit(p, ResultOk)
  \/ \E p \in Pids : ProcExit(p)

RaceSpec == Init /\ [][RaceNext]_vars

(* ------- BleedSpec: output that arrives between two turns of a session - *)
\* one more line than a drain reads
Burst == DrainCap + 1

\* the agent writes a burst of lines to its stdout
ProcEmitBurst(p, line) ==
  /\ p \in 1..nprocs
  /\ procs[p].alive /\ ~procs[p].closed
  /\ emitted < MaxOut
  /\ emitted' = emitted + 1
  /\ procs' = [procs EXCEPT ![p].out = @ \o Repeat(line, Burst)]
  /\ UNCHANGED <<schedvars, auxvars>>
  /\ UNCHANGED <<SESSION_LOCK, proc, first_turn, nsessions, nprocs, pc, tsession, prompt,
                 on_approval, on_event, events, final, outcome, tio, submitted, acquired,
                 ticket, prev>>

BleedNext ==
  \/ \E p \in Prompts : SendCall("c1", 1, p, TRUE, "ok")
  \/ SendAcquire("c1")
  \/ SendWritePrompt("c1")
  \/ SendReadLine("c1", None)
  \/ SendReadEOF("c1")
  \/ SendFinish("c1")
  \/ SendReturn("c1")
  \/ \E p \in Pids : ProcEmit(p, ResultOk)
  \/ \E p \in Pids : ProcEmitBurst(p, OtherEvent)
  \/ \E p \in Pids : ProcExit(p)

BleedSpec == Init /\ [][BleedNext]_vars

(* ------- DrainSpec: _drain_stdout on a channel closed for writing ------ *)
\* the largest number of buffered lines tried
MaxBuffered == DrainCap + 2

\* a session whose process has closed its stdout with n lines still buffered
DrainInit ==
  /\ \E n \in 0..MaxBuffered :
        procs = [p \in Pids |-> IF p = 1 THEN [DeadProc EXCEPT !.out = Repeat(OtherEvent, n)]
                                ELSE DeadProc]
  /\ proc = [s \in SessionIds |-> IF s = 1 THEN 1 ELSE NoProc]
  /\ nprocs = 1
  /\ SESSION_LOCK = Unlocked
  /\ nsessions = 1
  /\ first_turn = [s \in SessionIds |-> TRUE]
  /\ emitted = 0
  /\ pc = [t \in Threads |-> IF t \in Callers THEN "idle" ELSE "unborn"]
  /\ tsession = [t \in Threads |-> 1]
  /\ prompt = [t \in Threads |-> <<>>]
  /\ on_approval = [t \in Threads |-> FALSE]
  /\ on_event = [t \in Threads |-> "none"]
  /\ events = [t \in Threads |-> <<>>]
  /\ final = [t \in Threads |-> None]
  /\ outcome = [t \in Threads |-> "none"]
  /\ tio = [t \in Threads |-> <<>>]
  /\ submitted = <<>>
  /\ acquired = <<>>
  /\ ticket = [t \in Threads |-> 0]
  /\ prev = [turn |-> 0, outcome |-> "none", pid |-> NoProc]
  /\ SchedInit
  /\ AuxInit

\* one call of _drain_stdout() on session s
DrainStdout(s) ==
  LET p == proc[s]
  IN /\ p # NoProc
     /\ lastdrain.calls < MaxDrains
     /\ procs' = [procs EXCEPT ![p].out = Drained(@),
                               ![p].stale = StaleAfter(@, Len(DrainRead(procs[p].out)))]
     /\ lastdrain' = [calls |-> lastdrain.calls + 1, before |-> Len(procs[p].out),
                      after |-> Len(Drained(procs[p].out))]
     /\ UNCHANGED <<schedvars, metavars, lifevars, ctxvars, magicvars>>
     /\ UNCHANGED <<SESSION_LOCK, proc, first_turn, nsessions, nprocs, emitted, pc, tsession,
                    prompt, on_approval, on_event, events, final, outcome, tio, submitted,
                    acquired, ticket, prev>>

DrainNext == DrainStdout(1)

DrainSpec == DrainInit /\ [][DrainNext]_vars

(* ------------- CtxSpec: ContextTracker over the execution log --------- *)
MaxCellsArgs == {NoLimit} \cup {Limit(k) : k \in 0..2}
MaxCharsArgs == {NoLimit, Limit(1)}

Max(a, b) == IF a > b THEN a ELSE b

\* "max_cells is not None and max_cells > 0"
SlidingWindow(max_cells) == max_cells.given /\ max_cells.n > 0

\* faulty variant: incremental mode starts at the entry seen last
StartIdxAtSeen(max_cells, len, seen) ==
  IF SlidingWindow(max_cells) THEN Max(1, len - max_cells.n) ELSE Max(1, seen)

\* start_idx of build_block for a history of len entries
StartIdx(max_cells, len, seen) ==
  IF SlidingWindow(max_cells) THEN Max(1, len - max_cells.n) ELSE Max(1, seen + 1)

\* the code_block of a cell: its text, cut to max_chars when longer
CodeBlock(cell, max_chars) ==
  IF ~max_chars.given \/ cell.len <= max_chars.n
  THEN [len |-> cell.len, truncated |-> FALSE]
  ELSE [len |-> max_chars.n, truncated |-> TRUE]

\* faulty variant: the output is cut when the source is
OutTextByCode(cell, max_chars) ==
  IF ~max_chars.given \/ cell.len <= max_chars.n
  THEN [len |-> cell.out, truncated |-> FALSE]
  ELSE [len |-> max_chars.n, truncated |-> TRUE]

\* the out_text of a cell: str(Out[idx]), cut to max_chars when longer
OutText(cell, max_chars) ==
  IF ~max_chars.given \/ cell.out <= max_chars.n
  THEN [len |-> cell.out, truncated |-> FALSE]
  ELSE [len |-> max_chars.n, truncated |-> TRUE]

\* history[idx] of the python list (index 0 is the first entry)
History(idx) == In[idx + 1]

RECURSIVE Collect(_, _, _)
\* the loop "for idx in range(start_idx, len(history))": non-str entries and
\* magics are skipped, the others are appended as (idx, code_block, out_text)
Collect(idx, len, max_chars) ==
  IF idx >= len THEN <<>>
  ELSE (IF History(idx).str /\ ~Skipped(History(idx))
        THEN <<[idx |-> idx, code |-> CodeBlock(History(idx), max_chars),
                out |-> OutText(History(idx), max_chars)]>>
        ELSE <<>>)
       \o Collect(idx + 1, len, max_chars)

\* cells[-n:]
LastN(cells, n) == SubSeq(cells, Max(1, Len(cells) - n + 1), Len(cells))

\* the user_ns "In" entries the tracker can find when it is created: the key
\* missing (get("In", []) gives the empty list), or IPython's initial list
InitialLogs == {<<>>, <<EmptyCell>>}

CtxInit ==
  /\ SendInit(1)
  /\ SchedInit
  /\ MetaVarsInit /\ LifeVarsInit /\ DrainVarsInit /\ MagicVarsInit
  /\ last_seen = 0
  /\ In \in InitialLogs
  /\ block = <<>>
  /\ lastcall = NoCall
  /\ nopeek = [last_seen |-> 0, block |-> <<>>, peeked |-> FALSE]

\* a cell is executed: its source is appended to the In list
AppendCell(cell) ==
  /\ Len(In) < MaxLog
  /\ In' = Append(In, cell)
  /\ UNCHANGED <<last_seen, block, lastcall, nopeek>>
  /\ UNCHANGED <<sendvars, schedvars, metavars, lifevars, drainvars, magicvars>>

\* the cells build_block returns for a cursor at seen
BlockFrom(seen, max_cells, max_chars) ==
  LET found == Collect(StartIdx(max_cells, Len(In), seen), Len(In), max_chars)
  IN IF SlidingWindow(max_cells) THEN LastN(found, max_cells.n) ELSE found

\* faulty variant: a peek moves the cursor as well
AdvanceOnPeek(peek, seen, len) == len - 1

\* "if not peek: self.last_seen = len(history) - 1"
Advance(peek, seen, len) == IF peek THEN seen ELSE len - 1

\* ContextTracker.build_block(max_cells, max_chars, peek); ip is whether
\* get_ipython() gives a shell
BuildBlock(max_cells, max_chars, peek, ip) ==
  /\ IF ~ip
     THEN /\ block' = <<>>
          /\ UNCHANGED last_seen
     ELSE /\ block' = BlockFrom(last_seen, max_cells, max_chars)
          /\ last_seen' = Advance(peek, last_seen, Len(In))
  /\ lastcall' = [kind |-> IF peek THEN "peek" ELSE "build", max_cells |-> max_cells,
                  max_chars |-> max_chars, ip |-> ip]
  /\ nopeek' = IF peek THEN [nopeek EXCEPT !.peeked = TRUE]
               ELSE IF ~ip THEN [nopeek EXCEPT !.block = <<>>]
               ELSE [nopeek EXCEPT !.block = BlockFrom(nopeek.last_seen, max_cells, max_chars),
                                   !.last_seen = Len(In) - 1]
  /\ UNCHANGED In
  /\ UNCHANGED <<sendvars, schedvars, metavars, lifevars, drainvars, magicvars>>

CtxNext ==
  \/ \E cell \in Cells : AppendCell(cell)
  \/ \E max_cells \in MaxCellsArgs, max_chars \in MaxCharsArgs, peek \in BOOLEAN, ip \in BOOLEAN :
        BuildBlock(max_cells, max_chars, peek, ip)

CtxSpec == CtxInit /\ [][CtxNext]_vars

(* ------------- MetaSpec: payloads offered to metadata capture --------- *)
\* _capture_session_metadata(payload) on session s
CaptureSessionMetadata(s, pl) ==
  /\ ncapt < MaxCapt
  /\ ncapt' = ncapt + 1
  /\ meta' = [meta EXCEPT ![s] = Capture(@, pl)]
  /\ UNCHANGED <<sendvars, schedvars, lifevars, drainvars, magicvars, ctxvars>>

MetaNext == \E pl \in Payloads : CaptureSessionMetadata(1, pl)

MetaSpec == Init /\ [][MetaNext]_vars

(* ------- ResumeSpec: launches of a session that learns its session id -- *)
\* the session_id argument of SharedSession(...): None, or a string
ConstructorIds == {None, "", "a"}

\* session.resume events that carry a session id
ResumePayloads ==
  {[dict |-> TRUE, type |-> "session.resume", session_id |-> a, resume_command |-> Absent,
    rollout_path |-> Absent, msg |-> NoMsg] : a \in {"", "b"}}

ResumeInit ==
  /\ SendInit(1)
  /\ SchedInit
  /\ LifeVarsInit /\ DrainVarsInit /\ CtxVarsInit /\ MagicVarsInit
  /\ ncapt = 0
  /\ \E sid \in ConstructorIds :
        meta = [s \in SessionIds |-> [NoMeta EXCEPT !.session_id = sid]]

ResumeNext ==
  \/ \E p \in Prompts : SendCall("c1", 1, p, TRUE, "ok")
  \/ SendAcquire("c1")
  \/ SendWritePrompt("c1")
  \/ SendReadLine("c1", None)
  \/ SendReadEOF("c1")
  \/ SendFinish("c1")
  \/ SendReturn("c1")
  \/ EnsureStarted("c1", 1)
  \/ \E pl \in ResumePayloads : CaptureSessionMetadata(1, pl)
  \/ \E p \in Pids : ProcEmit(p, ResultOk)
  \/ \E p \in Pids : ProcExit(p)

ResumeSpec == ResumeInit /\ [][ResumeNext]_vars

(* --------------------------- turn scheduler --------------------------- *)
\* Thread.is_alive()
IsAlive(w) == w # None /\ pc[w] \notin {"unborn", "dead"}

\* faulty variant: the worker loop lets an exception of _process_codex_request escape
WorkerLoopCatchesNothing(err) == FALSE

\* _worker_loop: "except Exception" around the body of the loop keeps it running
WorkerLoopCatches(err) == TRUE

\* the parameters of _chain(first, second), none of them with a default
ChainParams == 2
\* the arguments of the call _chain(_log_event) in _process_codex_request
WorkerChainArgs == 1

\* faulty variant: a call with the wrong number of arguments goes through
CallNeverRaises(given, required) == FALSE

\* a call with fewer or more positional arguments than parameters: TypeError
CallRaises(given, required) == given # required

\* _process_codex_request, except branch: _log is not defined in the module, so
\* the call after update_display raises NameError
LogRaises == TRUE

\* queue.Queue.get: first in, first out
QueueGet(items) == Head(items)

\* what get() leaves on the queue
QueueRest(items) == Tail(items)

\* register_magic(async_mode=True) -> _start_worker_thread()
RegisterAsync ==
  /\ mainpc = "idle"
  /\ ~IsAlive(WORKER_THREAD)
  /\ CODEX_QUEUE = NoQueue => nqueues < MaxQueues
  /\ \E v \in Workers : pc[v] = "unborn"
  /\ LET w == CHOOSE v \in Workers : pc[v] = "unborn"
     IN /\ WORKER_THREAD' = w
        /\ pc' = [pc EXCEPT ![w] = "loop"]
  /\ CODEX_QUEUE' = IF CODEX_QUEUE = NoQueue THEN nqueues + 1 ELSE CODEX_QUEUE
  /\ nqueues' = IF CODEX_QUEUE = NoQueue THEN nqueues + 1 ELSE nqueues
  /\ UNCHANGED <<SESSION, queues, mainpc, request, nreq, display, queued, taken,
                 stopping>>
  /\ UNCHANGED auxvars
  /\ UNCHANGED <<SESSION_LOCK, proc, first_turn, nsessions, procs, nprocs, emitted,
                 tsession, prompt, on_approval, on_event, events, final, outcome, tio, submitted,
                 acquired, ticket, prev>>

\* _codex_magic, async branch: show the placeholder, put the request on the queue
\* (only if there is a queue), return
Enqueue ==
  LET r == nreq + 1
  IN /\ mainpc = "idle"
     /\ nqueues > 0
     /\ nreq < MaxReq
     /\ nreq' = r
     /\ display' = [display EXCEPT ![r] = "queued"]
     /\ IF CODEX_QUEUE # NoQueue
        THEN /\ queues' = [queues EXCEPT ![CODEX_QUEUE] = Append(@, r)]
             /\ queued' = queued \cup {r}
        ELSE UNCHANGED <<queues, queued>>
     /\ afterstop' = FALSE
     /\ UNCHANGED <<SESSION, CODEX_QUEUE, WORKER_THREAD, nqueues, mainpc, request, taken,
                    stopping>>
     /\ UNCHANGED <<sendvars, metavars, lifevars, drainvars, ctxvars, binary>>

\* the /stop command: _stop_session(), then _stop_worker_thread() up to the join
StopCommand ==
  LET s == SESSION
      p == IF s = NoSession THEN NoProc ELSE proc[s]
  IN /\ mainpc = "idle"
     /\ nqueues > 0
     /\ CODEX_QUEUE # NoQueue \/ SESSION # NoSession
     \* _stop_session: SharedSession.stop() and _SESSION = None
     /\ procs' = IF p # NoProc THEN [procs EXCEPT ![p].alive = FALSE, ![p].closed = TRUE]
                 ELSE procs
     /\ proc' = IF s # NoSession THEN [proc EXCEPT ![s] = NoProc] ELSE proc
     /\ first_turn' = IF s # NoSession THEN [first_turn EXCEPT ![s] = TRUE] ELSE first_turn
     /\ SESSION' = NoSession
     \* _stop_worker_thread: the poison pill
     /\ queues' = IF CODEX_QUEUE # NoQueue
                  THEN [queues EXCEPT ![CODEX_QUEUE] = Append(@, Sentinel)] ELSE queues
     /\ stopping' = IF CODEX_QUEUE # NoQueue /\ IsAlive(WORKER_THREAD)
                    THEN [stopping EXCEPT ![WORKER_THREAD] = TRUE] ELSE stopping
     /\ IF IsAlive(WORKER_THREAD)
        THEN /\ mainpc' = "joining"
             /\ UNCHANGED <<CODEX_QUEUE, WORKER_THREAD, afterstop>>
        ELSE /\ CODEX_QUEUE' = NoQueue
             /\ WORKER_THREAD' = None
             /\ afterstop' = TRUE
             /\ UNCHANGED mainpc
     /\ UNCHANGED <<nqueues, request, nreq, display, queued, taken>>
     /\ UNCHANGED <<metavars, lifevars, drainvars, ctxvars, binary>>
     /\ UNCHANGED <<SESSION_LOCK, nsessions, nprocs, emitted, pc, tsession, prompt,
                    on_approval, on_event, events, final, outcome, tio, submitted, acquired, ticket,
                    prev>>

\* _WORKER_THREAD.join(timeout=2.0) returns - the worker has ended, or it is still
\* busy with a request after two seconds - and the globals are cleared
StopJoinReturn ==
  /\ mainpc = "joining"
  /\ pc[WORKER_THREAD] # "loop"
  /\ CODEX_QUEUE' = NoQueue
  /\ WORKER_THREAD' = None
  /\ mainpc' = "idle"
  /\ afterstop' = TRUE
  /\ UNCHANGED <<SESSION, queues, nqueues, request, nreq, display, queued, taken,
                 stopping>>
  /\ UNCHANGED <<sendvars, metavars, lifevars, drainvars, ctxvars, binary>>

\* _worker_loop, top of the loop: leave if there is no queue, else get an item;
\* the poison pill ends the loop
WorkerGet(w) ==
  /\ pc[w] = "loop"
  /\ IF CODEX_QUEUE = NoQueue
     THEN /\ pc' = [pc EXCEPT ![w] = "dead"]
          /\ UNCHANGED <<queues, request, taken>>
     ELSE /\ queues[CODEX_QUEUE] # <<>>
          /\ LET item == QueueGet(queues[CODEX_QUEUE])
             IN /\ queues' = [queues EXCEPT ![CODEX_QUEUE] = QueueRest(@)]
                /\ IF item = Sentinel
                   THEN /\ pc' = [pc EXCEPT ![w] = "dead"]
                        /\ UNCHANGED <<request, taken>>
                   ELSE /\ pc' = [pc EXCEPT ![w] = "build"]
                        /\ request' = [request EXCEPT ![w] = item]
                        /\ taken' = [taken EXCEPT ![item] = @ + 1]
  /\ UNCHANGED <<SESSION, CODEX_QUEUE, WORKER_THREAD, nqueues, mainpc, nreq, display,
                 queued, stopping>>
  /\ UNCHANGED auxvars
  /\ UNCHANGED <<SESSION_LOCK, proc, first_turn, nsessions, procs, nprocs, emitted,
                 tsession, prompt, on_approval, on_event, events, final, outcome, tio, submitted,
                 acquired, ticket, prev>>

\* _process_codex_request up to the call of session.send: _shared_session()
\* constructs the session object if there is none and the prompt is built; then
\* the arguments of send are evaluated, and _chain(_log_event) passes one
\* argument to a function of two parameters: TypeError, before send is entered
WorkerBuild(w, p) ==
  LET fresh == SESSION = NoSession
      s == IF fresh THEN nsessions + 1 ELSE SESSION
      bad == CallRaises(WorkerChainArgs, ChainParams)
  IN /\ pc[w] = "build"
     /\ fresh => nsessions < MaxSessions
     /\ SESSION' = s
     /\ nsessions' = IF fresh THEN nsessions + 1 ELSE nsessions
     /\ tsession' = [tsession EXCEPT ![w] = s]
     /\ prompt' = [prompt EXCEPT ![w] = p]
     /\ IF bad
        THEN /\ pc' = [pc EXCEPT ![w] = "done"]
             /\ outcome' = [outcome EXCEPT ![w] = "TypeError"]
             /\ UNCHANGED <<on_approval, on_event, ticket>>
        ELSE /\ pc' = [pc EXCEPT ![w] = "waiting"]
             /\ on_approval' = [on_approval EXCEPT ![w] = TRUE]
             /\ on_event' = [on_event EXCEPT ![w] = Chain("none", "ok")]
             /\ ticket' = [ticket EXCEPT ![w] = request[w]]
             /\ UNCHANGED outcome
     /\ UNCHANGED <<CODEX_QUEUE, WORKER_THREAD, queues, nqueues, mainpc, request, nreq,
                    display, queued, taken, stopping>>
     /\ UNCHANGED auxvars
     /\ UNCHANGED <<SESSION_LOCK, proc, first_turn, procs, nprocs, emitted, events, final,
                    tio, submitted, acquired, prev>>

\* _process_codex_request after the try block: update_display with the response, or the
\* except branch: update_display with the error, then _log; an exception that
\* leaves _process_codex_request is caught by the loop
WorkerPublish(w) ==
  LET r == request[w]
      failed == outcome[w] # "ok"
      escapes == failed /\ LogRaises /\ ~WorkerLoopCatches("NameError")
  IN /\ pc[w] = "done"
     /\ display' = [display EXCEPT ![r] = IF failed THEN "error" ELSE "result"]
     /\ pc' = [pc EXCEPT ![w] = IF escapes THEN "dead" ELSE "loop"]
     /\ request' = [request EXCEPT ![w] = 0]
     /\ events' = [events EXCEPT ![w] = <<>>]
     /\ final' = [final EXCEPT ![w] = None]
     /\ tio' = [tio EXCEPT ![w] = <<>>]
     /\ prompt' = [prompt EXCEPT ![w] = <<>>]
     /\ on_approval' = [on_approval EXCEPT ![w] = FALSE]
     /\ on_event' = [on_event EXCEPT ![w] = "none"]
     /\ outcome' = [outcome EXCEPT ![w] = "none"]
     /\ ticket' = [ticket EXCEPT ![w] = 0]
     /\ UNCHANGED <<SESSION, CODEX_QUEUE, WORKER_THREAD, queues, nqueues, mainpc, nreq,
                    queued, taken, stopping>>
     /\ UNCHANGED auxvars
     /\ UNCHANGED <<SESSION_LOCK, proc, first_turn, nsessions, procs, nprocs, emitted,
                    tsession, submitted, acquired, prev>>

(* --------------- WorkerSpec: the scheduler and its workers ------------ *)
\* nothing registered yet: no session object, no queue, no worker
WorkerInit == SendInit(0) /\ SchedInit /\ AuxInit

WorkerNext ==
  \/ RegisterAsync
  \/ Enqueue
  \/ StopCommand
  \/ StopJoinReturn
  \/ \E w \in Workers : WorkerGet(w)
  \/ \E w \in Workers : WorkerBuild(w, <<"x">>)
  \/ \E w \in Workers : WorkerPublish(w)

WorkerSpec == WorkerInit /\ [][WorkerNext]_vars

\* the worker thread and the agent process keep running; the notebook user is
\* free to do nothing
WorkerFairness ==
  /\ \A w \in Workers :
       /\ WF_vars(WorkerGet(w))
       /\ WF_vars(WorkerBuild(w, <<"x">>))
       /\ WF_vars(WorkerPublish(w))
  /\ WF_vars(StopJoinReturn)

WorkerFairSpec == WorkerInit /\ [][WorkerNext]_vars /\ WorkerFairness

(* ------- TemplateSpec: prompts and /new in synchronous mode ------------ *)
\* _load_template(): the text of the template
Template == <<"T">>

\* "\n\n".join([template, "User prompt:\n" + prompt])
WithTemplate(p) == Template \o <<NL, NL, "User prompt:", NL>> \o p

\* the prompt _codex_magic builds: the template goes first if session.first_turn
BuildPrompt(first, p) == IF first THEN WithTemplate(p) ELSE p

\* the notebook thread is not inside a command
MainFree == mainpc = "idle" /\ pc["c1"] = "idle"

\* _codex_magic, synchronous branch: _shared_session() constructs the session
\* object if there is none, the prompt is built, session.send is entered
SyncPrompt(p) ==
  LET fresh == SESSION = NoSession
      s == IF fresh THEN nsessions + 1 ELSE SESSION
  IN /\ MainFree
     /\ fresh => nsessions < MaxSessions
     /\ Len(submitted) < MaxSends
     /\ SESSION' = s
     /\ nsessions' = IF fresh THEN nsessions + 1 ELSE nsessions
     /\ pc' = [pc EXCEPT !["c1"] = "waiting"]
     /\ tsession' = [tsession EXCEPT !["c1"] = s]
     /\ prompt' = [prompt EXCEPT !["c1"] = BuildPrompt(first_turn[s], p)]
     /\ on_approval' = [on_approval EXCEPT !["c1"] = TRUE]
     /\ on_event' = [on_event EXCEPT !["c1"] = Chain("ok", "ok")]
     /\ ticket' = [ticket EXCEPT !["c1"] = Len(submitted) + 1]
     /\ submitted' = Append(submitted, Len(submitted) + 1)
     /\ afterstop' = FALSE
     /\ UNCHANGED <<CODEX_QUEUE, WORKER_THREAD, queues, nqueues, mainpc, request, nreq,
                    display, queued, taken, stopping>>
     /\ UNCHANGED <<metavars, lifevars, drainvars, ctxvars, binary>>
     /\ UNCHANGED <<SESSION_LOCK, proc, first_turn, procs, nprocs, emitted, events, final,
                    outcome, tio, acquired, prev>>

\* the /new command: _stop_session(), then _shared_session(runtime).send(rest)
\* on the session object that _shared_session() constructs
NewCommand(p) ==
  LET old == SESSION
      op == IF old = NoSession THEN NoProc ELSE proc[old]
      s == nsessions + 1
  IN /\ MainFree
     /\ nsessions < MaxSessions
     /\ Len(submitted) < MaxSends
     /\ procs' = IF op # NoProc THEN [procs EXCEPT ![op].alive = FALSE, ![op].closed = TRUE]
                 ELSE procs
     /\ proc' = IF old # NoSession THEN [proc EXCEPT ![old] = NoProc] ELSE proc
     /\ first_turn' = IF old # NoSession THEN [first_turn EXCEPT ![old] = TRUE] ELSE first_turn
     /\ SESSION' = s
     /\ nsessions' = s
     /\ pc' = [pc EXCEPT !["c1"] = "waiting"]
     /\ tsession' = [tsession EXCEPT !["c1"] = s]
     /\ prompt' = [prompt EXCEPT !["c1"] = p]
     /\ on_approval' = [on_approval EXCEPT !["c1"] = TRUE]
     /\ on_event' = [on_event EXCEPT !["c1"] = Chain("ok", "ok")]
     /\ ticket' = [ticket EXCEPT !["c1"] = Len(submitted) + 1]
     /\ submitted' = Append(submitted, Len(submitted) + 1)
     /\ afterstop' = FALSE
     /\ UNCHANGED <<CODEX_QUEUE, WORKER_THREAD, queues, nqueues, mainpc, request, nreq,
                    display, queued, taken, stopping>>
     /\ UNCHANGED <<metavars, lifevars, drainvars, ctxvars, binary>>
     /\ UNCHANGED <<SESSION_LOCK, nprocs, emitted, events, final, outcome, tio, acquired,
                    prev>>

TemplateNext ==
  \/ \E p \in Prompts : SyncPrompt(p)
  \/ \E p \in Prompts : NewCommand(p)
  \/ SendAcquire("c1")
  \/ SendWritePrompt("c1")
  \/ SendReadLine("c1", None)
  \/ SendFinish("c1")
  \/ SendReturn("c1")
  \/ \E p \in Pids : ProcEmit(p, ResultOk)

TemplateSpec == WorkerInit /\ [][TemplateNext]_vars

(* ------- AsyncSpec: the scheduler with /new and the sends of its threads *)
\* the threads that call session.send: the notebook thread and the workers
MagicThreads == {"c1"} \cup Workers

AsyncNext ==
  \/ MainFree /\ RegisterAsync
  \/ MainFree /\ Enqueue
  \/ MainFree /\ StopCommand
  \/ StopJoinReturn
  \/ \E w \in Workers : WorkerGet(w)
  \/ \E w \in Workers : WorkerBuild(w, <<"x">>)
  \/ \E w \in Workers : WorkerPublish(w)
  \/ NewCommand(<<"x">>)
  \/ \E t \in MagicThreads : SendAcquire(t)
  \/ \E t \in MagicThreads : SendWritePrompt(t)
  \/ \E t \in MagicThreads : SendReadLine(t, None)
  \/ \E t \in MagicThreads : SendFinish(t)
  \/ SendReturn("c1")
  \/ \E p \in Pids : ProcEmit(p, ResultOk)

AsyncSpec == WorkerInit /\ [][AsyncNext]_vars

(* ------- ResolveSpec: CodexBackend(...) looks for the cleon binary ------ *)
\* the paths that arguments and the environment name, and the files that can exist
Paths == {"a", "~/b"}
Files == {"a", "/home/b"}

\* os.path.expanduser
ExpandUser(path) == IF path = "~/b" THEN "/home/b" ELSE path

\* the binary argument and the value of CLEON_BIN: None, "", or a path
PathArgs == {None, ""} \cup Paths

\* extra_env: without CLEON_BIN, or with a value for it
NoExtra == "<no CLEON_BIN>"
ExtraEnvs == {NoExtra, ""} \cup Paths

\* "if value: candidates.append(value)"
Truthy(v) == v \notin {None, ""}

\* faulty variant: the environment variable is tried before the explicit path
CandidatesEnvFirst(explicit, env_value, b) ==
  SelectSeq(<<env_value, explicit, b.pkg, b.which, b.target>>, Truthy)

\* the candidates list of _resolve_cleon_binary: explicit, $CLEON_BIN, the
\* packaged bin, shutil.which, the target directories of the parents
Candidates(explicit, env_value, b) ==
  SelectSeq(<<explicit, env_value, b.pkg, b.which, b.target>>, Truthy)

RECURSIVE FirstFile(_, _, _)
\* the loop over the candidates: expanduser, skip a path seen before, return
\* the first that is a file
FirstFile(cands, seen, files) ==
  IF cands = <<>> THEN None
  ELSE LET norm == ExpandUser(Head(cands))
       IN IF norm \in seen THEN FirstFile(Tail(cands), seen, files)
          ELSE IF norm \in files THEN norm
          ELSE FirstFile(Tail(cands), seen \cup {norm}, files)

\* _resolve_cleon_binary(explicit) with CLEON_BIN = env_value
ResolveCleonBinary(explicit, env_value, b) ==
  FirstFile(Candidates(explicit, env_value, b), {}, b.files)

\* the files that exist, what the packaged bin directory, shutil.which and the
\* target directories give (files that exist, or nothing), the value of CLEON_BIN
ResolveInit ==
  /\ SendInit(1)
  /\ SchedInit
  /\ MetaVarsInit /\ LifeVarsInit /\ DrainVarsInit /\ CtxVarsInit
  /\ afterstop = FALSE
  /\ \E files \in SUBSET Files, env_value \in PathArgs :
        \E pkg \in {None} \cup files, which \in {None} \cup files, target \in {None} \cup files :
           binary = [NoBinary EXCEPT !.files = files, !.environ = env_value, !.pkg = pkg,
                                     !.which = which, !.target = target]

\* CodexBackend.__init__(binary=explicit, extra_env=...): extra_env is copied to
\* os.environ, the binary is resolved, and RuntimeError is raised if there is
\* none, else CLEON_BIN is set to it
NewBackend(explicit, extra) ==
  LET env_value == IF extra = NoExtra THEN binary.environ ELSE extra
      resolved == ResolveCleonBinary(explicit, env_value, binary)
  IN /\ binary.calls < MaxBackends
     /\ binary' = [binary EXCEPT !.calls = @ + 1,
                                 !.explicit = explicit,
                                 !.envcall = env_value,
                                 !.result = resolved,
                                 !.raised = resolved = None,
                                 !.environ = IF resolved = None THEN env_value ELSE resolved]
     /\ UNCHANGED <<sendvars, schedvars, metavars, lifevars, drainvars, ctxvars, afterstop>>

ResolveNext == \E explicit \in PathArgs, extra \in ExtraEnvs : NewBackend(explicit, extra)

ResolveSpec == ResolveInit /\ [][ResolveNext]_vars

(* ============================ properties ============================== *)
\* the positions of a send() between taking the lock and leaving the "with" block
OnWire == {"locked", "reading", "draining"}

\* index of x in the sequence q (0 if absent)
Pos(q, x) == IF \E i \in DOMAIN q : q[i] = x THEN CHOOSE i \in DOMAIN q : q[i] = x ELSE 0

PromptLines(p) == {i \in DOMAIN procs[p].inp : procs[p].inp[i].kind = "prompt"}

\* C1: at most one turn is on the wire at a time - while one send() is between
\* taking the lock and returning or failing, no other send() has written its
\* prompt or reads output
C1_OneTurnOnWire ==
  \A t1, t2 \in Threads : (t1 # t2 /\ pc[t1] \in OnWire) => pc[t2] \notin OnWire

C1_Witness ==
  \E t1, t2 \in Callers : t1 # t2 /\ pc[t1] = "reading" /\ pc[t2] = "waiting"

\* C3 as stated: a process receives the prompt lines in the order of the
\* send() calls
C3_SubmissionOrder ==
  \A p \in 1..nprocs : \A i, j \in PromptLines(p) :
     i < j => procs[p].inp[i].turn < procs[p].inp[j].turn

\* C3 amended: every prompt arrives as one complete line (the prompt with each
\* newline replaced by the separator, no newline left in it), and the lines
\* of one process arrive in the order in which the sends took the lock
C3_LockOrderCompleteLines ==
  \A p \in 1..nprocs :
     /\ \A i \in PromptLines(p) :
          LET l == procs[p].inp[i]
          IN /\ Len(l.text) = Len(l.raw)
             /\ \A k \in DOMAIN l.text :
                  /\ l.text[k] # NL
                  /\ l.raw[k] # NL => l.text[k] = l.raw[k]
                  /\ l.raw[k] = NL => l.text[k] = SEP
     /\ \A i, j \in PromptLines(p) :
          i < j => Pos(acquired, procs[p].inp[i].turn) < Pos(acquired, procs[p].inp[j].turn)

C3_Witness ==
  \E p \in 1..nprocs : \E i, j \in PromptLines(p) :
     /\ i < j
     /\ procs[p].inp[i].turn > procs[p].inp[j].turn
     /\ \E k \in DOMAIN procs[p].inp[i].raw : procs[p].inp[i].raw[k] = NL

LastOp(t) == tio[t][Len(tio[t])]

\* C8: a send() whose channel closes before a terminal result was captured
\* fails with the missing-turn-result error and gives the lock back; the send()
\* that follows writes its prompt to a running process, a newly started one with
\* an open channel if the old one has exited
C8_Inv ==
  \A t \in Threads :
     /\ (pc[t] = "done" /\ tio[t] # <<>> /\ LastOp(t).what = "eof" /\ final[t] = None)
           => (outcome[t] = "MissingTurnResult" /\ SESSION_LOCK # t)
     /\ pc[t] \in {"idle", "waiting", "done"} => SESSION_LOCK # t

C8_Step ==
  \A t \in Threads :
     (pc[t] = "locked" /\ pc'[t] = "reading" /\ prev.outcome = "MissingTurnResult")
        => LET p == proc'[tsession[t]]
           IN /\ procs'[p].alive
              /\ procs'[p].inp[Len(procs'[p].inp)].turn = ticket[t]
              /\ ~procs[prev.pid].alive
                    => (p # prev.pid /\ ~procs'[p].closed /\ procs'[p].out = <<>>)
              /\ procs[prev.pid].alive => p = prev.pid

RECURSIVE TypesOf(_)
TypesOf(evs) == IF evs = <<>> THEN <<>> ELSE <<Head(evs).type>> \o TypesOf(Tail(evs))

RECURSIVE ReadTypes(_)
ReadTypes(ops) ==
  IF ops = <<>> THEN <<>>
  ELSE (IF Head(ops).op = "read" /\ Head(ops).what \notin {"garbage", "eof"}
        THEN <<IF Head(ops).what = "nonobject" THEN "" ELSE Head(ops).what>> ELSE <<>>)
       \o ReadTypes(Tail(ops))

\* C9: send() returns successfully exactly when it has read a turn.result event
\* that carries a result field, whatever the value; it returns that value, and
\* as events every parsed event read, in read order, ending with that event
C9_SuccessIffResultEvent ==
  \A t \in Threads :
     pc[t] = "done" =>
        /\ outcome[t] = "ok" <=> (\E i \in DOMAIN events[t] : IsTerminal(events[t][i]))
        /\ outcome[t] = "ok" =>
             /\ IsTerminal(events[t][Len(events[t])])
             /\ final[t] = events[t][Len(events[t])].result
             /\ TypesOf(events[t]) = ReadTypes(tio[t])

\* C10: a non-empty decision returned for an approval.request is written as the
\* next operation on the pipes, before any further read; the turn writes no
\* second prompt; the returned events hold every parsed event in read order
Relayed(d) == d \notin {"-", None, "", Raise}

C10_DecisionBeforeNextRead ==
  \A t \in Threads :
     /\ \A i \in DOMAIN tio[t] :
          /\ (tio[t][i].op = "read" /\ Relayed(tio[t][i].decision)) =>
                /\ i < Len(tio[t])
                /\ tio[t][i + 1].op = "write"
                /\ tio[t][i + 1].what = "decision"
                /\ tio[t][i + 1].decision = tio[t][i].decision
                /\ tio[t][i + 1].pid = tio[t][i].pid
          /\ tio[t][i].what = "prompt" => i = 1
     /\ (pc[t] = "done" /\ outcome[t] = "ok") => TypesOf(events[t]) = ReadTypes(tio[t])

C10_Witness ==
  \E t \in Callers :
     /\ pc[t] = "done" /\ outcome[t] = "ok"
     /\ TypesOf(events[t]) = <<"approval.request", "turn.result">>
     /\ Len(tio[t]) = 4
     /\ tio[t][2].decision = "approve"
     /\ tio[t][3].op = "write"

(* ------------------------ scheduler properties ------------------------ *)
\* a worker has taken request r from the queue and started on it
Started(r) == taken[r] > 0

Published(r) == display[r] \in {"result", "error"}

OnQueue(q, r) == \E i \in DOMAIN queues[q] : queues[q][i] = r

\* C2: queued requests run one at a time in the order they were enqueued - when
\* a worker starts on a request, every request enqueued before it has had its
\* result or error published
C2_FifoOneAtATime ==
  \A r1, r2 \in queued : (r1 < r2 /\ Started(r2)) => Published(r1)

\* C4: every request put on the queue is taken by a worker exactly once - never
\* twice, and one not yet taken is still on the queue the worker reads
C4_ExactlyOnce ==
  \A r \in queued :
     /\ taken[r] <= 1
     /\ taken[r] = 0 => (CODEX_QUEUE # NoQueue /\ OnQueue(CODEX_QUEUE, r))

\* C5: when a request fails - send raised, and the reporting code raised too -
\* the error is shown on that request's display handle, the worker is back at
\* the top of its loop, and the requests still queued are untouched
C5_Step ==
  \A w \in Workers :
     (pc[w] = "done" /\ outcome[w] # "ok" /\ pc'[w] # "done")
        => /\ display'[request[w]] = "error"
           /\ pc'[w] = "loop"
           /\ queues' = queues

C6_AtMostOneWorker ==
  CODEX_QUEUE # NoQueue => Cardinality({w \in Workers : pc[w] = "loop"}) <= 1

\* C7: once the sentinel has been enqueued for a worker, that worker finishes
\* what it is doing and eventually leaves its loop
C7_SentinelStopsWorker ==
  \A w \in Workers : stopping[w] ~> (pc[w] = "dead")

(* ------------------------- callbacks and parsing ----------------------- *)
\* C11: an exception raised by on_approval is swallowed - send() does not end
\* with an exception at the line whose on_approval call raised, it goes on
\* reading
C11_ApprovalErrorSwallowed ==
  \A t \in Threads :
     (tio[t] # <<>> /\ LastOp(t).op = "read" /\ LastOp(t).decision = Raise)
        => ~(pc[t] = "done" /\ outcome[t] \notin {"ok", "MissingTurnResult"})

\* the last event of a list is a turn.result event with a result field
EndsTerminal(evs) == evs # <<>> /\ IsTerminal(evs[Len(evs)])

\* C12: an exception raised by on_event is swallowed - every parsed event stays
\* in events, on_event is called for every event that reaches it, reading goes
\* on after a non-terminal event, and the turn ends as the lines read dictate
\* (result or missing-turn-result), never with the callback's exception
C12_EventErrorSwallowed ==
  \A t \in Threads :
     on_event[t] = "raises" =>
        /\ TypesOf(events[t]) = ReadTypes(tio[t])
        /\ outcome[t] # "EventCallbackError"
        /\ \A i \in DOMAIN tio[t] :
             (/\ tio[t][i].op = "read"
              /\ tio[t][i].what \notin {"garbage", "eof", "nonobject"}
              /\ tio[t][i].decision \in {"-", None, ""}) => tio[t][i].delivered = Raise
        /\ (tio[t] # <<>> /\ LastOp(t).delivered = Raise /\ ~EndsTerminal(events[t]))
              => pc[t] = "reading"
        /\ (pc[t] = "done" /\ outcome[t] \in {"ok", "MissingTurnResult"})
              => (outcome[t] = "ok" <=>
                    (EndsTerminal(events[t]) /\ events[t][Len(events[t])].result # None))

C12_Witness ==
  \E t \in Callers :
     /\ on_event[t] = "raises"
     /\ pc[t] = "done" /\ outcome[t] = "ok"
     /\ TypesOf(events[t]) = <<"token", "turn.result">>
     /\ Len(tio[t]) = 3
     /\ tio[t][2].delivered = Raise /\ tio[t][3].delivered = Raise

\* C13: a line that fails JSON parsing is skipped - when the read loop takes
\* such a line, nothing is added to events, no callback is called and nothing is
\* written, the metadata is untouched, and the thread is still in the read loop
C13_Step ==
  \A t \in Threads :
     LET p == proc[tsession[t]]
     IN (/\ pc[t] = "reading"
         /\ p # NoProc
         /\ procs[p].out # <<>>
         /\ ~Head(procs[p].out).json
         /\ procs'[p].out = Tail(procs[p].out))
        => /\ events'[t] = events[t]
           /\ final'[t] = final[t]
           /\ meta' = meta
           /\ procs'[p].inp = procs[p].inp
           /\ pc'[t] = "reading"
           /\ outcome'[t] = outcome[t]
           /\ Len(tio'[t]) = Len(tio[t]) + 1
           /\ tio'[t][Len(tio'[t])].decision = "-"
           /\ tio'[t][Len(tio'[t])].delivered = "-"

C13_GarbageLineSkipped == [][C13_Step]_vars

\* a turn that read an unparsable line and then its result
C13_Witness ==
  \E t \in Callers :
     /\ pc[t] = "done" /\ outcome[t] = "ok"
     /\ Len(tio[t]) = 3
     /\ tio[t][2].what = "garbage"
     /\ Len(events[t]) = 1

(* --------------------------- session metadata -------------------------- *)
\* a learned value: a string that is not empty
NonEmpty(v) == v \notin {None, ""}

\* C14: once session_id, resume_command or rollout_path holds a non-empty value,
\* no payload offered to metadata capture replaces it by an empty or missing one
C14_Step ==
  \A s \in SessionIds :
     /\ NonEmpty(meta[s].session_id) => NonEmpty(meta'[s].session_id)
     /\ NonEmpty(meta[s].resume_command) => NonEmpty(meta'[s].resume_command)
     /\ NonEmpty(meta[s].rollout_path) => NonEmpty(meta'[s].rollout_path)

C14_LearnedNeverEmptied == [][C14_Step]_vars

(* --------------------------- session lifecycle ------------------------- *)
\* C15: first_turn is true on a new session and after stop(), false once a
\* prompt was written, and true again whenever a process is started - every
\* process was started with first_turn true
C15_FirstTurnTracksStarts ==
  \A s \in 1..nsessions :
     /\ proc[s] = NoProc => first_turn[s]
     /\ (proc[s] # NoProc /\ PromptLines(proc[s]) # {}) => ~first_turn[s]
     /\ \A p \in 1..nprocs : procs[p].ft

\* C16: stop() never raises, and when it is over the process handle is cleared
\* and first_turn is true
C16_Step ==
  stopres'.calls = stopres.calls + 1
     => /\ stopres'.result = "returned"
        /\ proc'[1] = NoProc
        /\ first_turn'[1]

C16_StopNeverRaises == [][C16_Step]_vars

\* C17: at most one process of the session is running at any time, and a step
\* that finds the current process running starts none
C17_Inv == Cardinality({p \in 1..nprocs : procs[p].alive}) <= 1

C17_Step == nprocs' > nprocs => ~Running(proc[1])

C17_AtMostOneProcess == []C17_Inv /\ [][C17_Step]_vars

(* ------------------------------- draining ------------------------------ *)
\* C18: no line that the process emitted before the current turn's prompt was
\* written is handled by the current turn's read loop
C18_NoStaleLineRead ==
  \A t \in Threads : \A i \in DOMAIN tio[t] :
     (tio[t][i].op = "read" /\ tio[t][i].what # "garbage") => ~tio[t][i].stale

\* C19 as stated: whatever the number of buffered lines, one call of
\* _drain_stdout leaves the closed channel at end of data and has read no more
\* than the drain cap
C19_DrainReachesEnd ==
  lastdrain.calls >= 1 =>
     /\ procs[1].out = <<>>
     /\ lastdrain.before - lastdrain.after <= DrainCap

\* C19 amended: one call reads the buffered lines up to the drain cap - with no
\* more than DrainCap lines buffered the channel is left at end of data, with
\* more the call reads exactly DrainCap lines and the rest stays buffered
C19_DrainUpToCap ==
  lastdrain.calls >= 1 =>
     /\ Len(procs[1].out) = lastdrain.after
     /\ lastdrain.before <= DrainCap => lastdrain.after = 0
     /\ lastdrain.before > DrainCap => lastdrain.after = lastdrain.before - DrainCap

C19_Witness ==
  /\ lastdrain.calls = 1
  /\ lastdrain.before = DrainCap + 1
  /\ Len(procs[1].out) = 1

(* ---------------------------- ContextTracker --------------------------- *)
\* C20: ContextTracker.last_seen never decreases, whatever build_block calls
\* and appends to the execution log happen, the empty log included
C20_LastSeenNeverDecreases == [][last_seen' >= last_seen]_vars

\* C21: build_block calls with peek set leave last_seen unchanged, and a later
\* call without peek returns the block and sets the cursor that it would
\* have without the peeks
C21_Step == lastcall'.kind = "peek" => last_seen' = last_seen

C21_Inv ==
  /\ last_seen = nopeek.last_seen
  /\ lastcall.kind = "build" => block = nopeek.block

C21_PeekLeavesNoTrace == []C21_Inv /\ [][C21_Step]_vars

C21_Witness ==
  /\ lastcall.kind = "build" /\ lastcall.ip
  /\ nopeek.peeked
  /\ block # <<>>
  /\ last_seen = Len(In) - 1
  /\ last_seen > 0

\* C22: with max_cells = K > 0 build_block returns the K most recent entries of
\* the log that are not filtered out, fewer only when fewer exist
C22_Step ==
  \A max_cells \in MaxCellsArgs, max_chars \in MaxCharsArgs, peek \in BOOLEAN :
     (SlidingWindow(max_cells) /\ BuildBlock(max_cells, max_chars, peek, TRUE))
        => block' = LastN(Collect(1, Len(In), max_chars), max_cells.n)

C22_WindowOfQualifying == [][C22_Step]_vars

(* ------------------------------ stop() --------------------------------- *)
\* C23: when stop() returns, the process the session had started is no longer
\* running
C23_Step ==
  (stopres'.calls = stopres.calls + 1 /\ stopres'.result = "returned" /\ proc[1] # NoProc)
     => ~procs'[proc[1]].alive

C23_StoppedMeansNotRunning == [][C23_Step]_vars

\* a step writes a line to a process or takes lines from its output
DoesIO == \E p \in Pids : procs'[p].inp # procs[p].inp \/ Len(procs'[p].out) < Len(procs[p].out)

\* thread t is inside the turn of a send: the prompt is written, the lock held
InTurn(t) == SESSION_LOCK = t /\ pc[t] \in {"reading", "draining"}

\* C24: every write to the process and every read of its output is a step of
\* the send() whose thread holds the turn lock, and the process handle is not
\* changed under a send that is in its turn
C24_Step ==
  /\ DoesIO => \E t \in Threads : SESSION_LOCK = t /\ (tio'[t] # tio[t] \/ pc'[t] # pc[t])
  /\ \A t \in Threads : InTurn(t) => proc'[tsession[t]] = proc[tsession[t]]

C24_LockGuardsProcess == [][C24_Step]_vars

(* ------------------------- the end of a send --------------------------- *)
\* the outcomes of a send() that ended with an exception
Failures == {"MissingTurnResult", "PipeUnavailable", "AttributeError", "ApprovalCallbackError"}

\* C25: however a send ends, its thread does not hold the turn lock afterwards:
\* the lock is held only by a thread between acquiring it and the end of its send
C25_LockReleasedAtEnd ==
  \A t \in Threads : SESSION_LOCK = t => pc[t] \in {"locked", "reading", "draining"}

\* a send has taken the lock after the send before it had failed
C25_Witness ==
  /\ prev.outcome \in Failures
  /\ ticket["c1"] = prev.turn + 1
  /\ SESSION_LOCK = "c1"
  /\ pc["c1"] = "reading"

\* C27: when proc.stdin is None at the point where send() is about to write the
\* prompt, send() ends with the pipe-unavailable error, no line has been
\* written to any process and first_turn is what it was
C27_Step ==
  \A t \in Callers :
     LET p == proc[tsession[t]]
     IN /\ (pc[t] = "locked" /\ pc'[t] # "locked" /\ Running(p) /\ ~procs[p].stdin)
            => outcome'[t] = "PipeUnavailable"
        /\ (pc[t] = "locked" /\ outcome'[t] = "PipeUnavailable")
            => /\ \A q \in Pids : procs'[q].inp = procs[q].inp
               /\ first_turn' = first_turn
               /\ pc'[t] = "done"

C26_NonObjectPassedThrough ==
  \A t \in Threads : \A i \in DOMAIN tio[t] :
     (tio[t][i].op = "read" /\ tio[t][i].what = "nonobject")
        => /\ outcome[t] # "AttributeError"
           /\ on_event[t] # "none" => tio[t][i].delivered # "-"

RECURSIVE DecisionsOf(_)
\* the non-empty decisions on_approval returned in a turn, in read order
DecisionsOf(ops) ==
  IF ops = <<>> THEN <<>>
  ELSE (IF Head(ops).op = "read" /\ Relayed(Head(ops).decision)
        THEN <<Head(ops).decision>> ELSE <<>>)
       \o DecisionsOf(Tail(ops))

\* the lines process p received that were written by the send with ticket k
WrittenIn(p, k) ==
  LET OfTurn(l) == l.turn = k
  IN SelectSeq(procs[p].inp, OfTurn)

\* C28: the lines one send writes are one prompt line without a newline (each
\* newline replaced by the separator), then one decision line for every
\* approval.request answered with a non-empty decision, in read order, and
\* nothing else
C28_ExactLinesWritten ==
  \A t \in Callers :
     (pc[t] \in {"reading", "draining", "done"} /\ tio[t] # <<>>) =>
        LET w == WrittenIn(tio[t][1].pid, ticket[t])
            ds == DecisionsOf(tio[t])
        IN /\ Len(w) = 1 + Len(ds)
           /\ w[1].kind = "prompt"
           /\ w[1].text = Replace(prompt[t], NL, SEP)
           /\ \A i \in DOMAIN w[1].text : w[1].text[i] # NL
           /\ \A i \in DOMAIN ds : w[i + 1].kind = "decision" /\ w[i + 1].text = <<ds[i]>>

C28_Witness ==
  /\ pc["c1"] = "done" /\ outcome["c1"] = "ok"
  /\ prompt["c1"] = <<"x", NL, "y">>
  /\ Len(events["c1"]) = 2
  /\ Len(WrittenIn(proc[1], ticket["c1"])) = 2
  /\ WrittenIn(proc[1], ticket["c1"])[2].text = <<"approve">>

\* C29: on_event is called for every parsed event of a turn, except for the
\* approval.request events that were answered with a non-empty decision
C29_EveryEventDelivered ==
  \A t \in Threads : \A i \in DOMAIN tio[t] :
     (on_event[t] # "none" /\ tio[t][i].op = "read" /\ tio[t][i].what \notin {"garbage", "eof"})
        => (tio[t][i].delivered # "-" <=> ~Relayed(tio[t][i].decision))

(* ------------------------------ launches ------------------------------- *)
\* C30: a process started while the session knows a non-empty session id was
\* launched with the resume flag and exactly that id; one started while it knows
\* none was launched without the flag
C30_ResumeFlag ==
  \A p \in 1..nprocs :
     /\ NonEmpty(procs[p].sid) => procs[p].cmd = <<"--resume", procs[p].sid>>
     /\ ~NonEmpty(procs[p].sid) => procs[p].cmd = <<>>

\* a first process launched without the flag, a second one with the id learned since
C30_Witness ==
  /\ nprocs >= 2
  /\ procs[1].cmd = <<>>
  /\ procs[2].cmd = <<"--resume", "b">>
  /\ meta[1].session_id = "b"

(* --------------------------- stop and metadata ------------------------- *)
\* C31: a stop() in which nothing fails and that the agent answers with a
\* session.resume event leaves the session with the session_id and the
\* resume_command of that event, which CodexBackend.stop() then returns
C31_Step ==
  \A exits \in BOOLEAN, killfails \in BOOLEAN, reply \in StopReplies :
     (reply # <<>> /\ StopCall("c1", 1, exits, "none", killfails, reply))
        => /\ meta'[1].session_id = ResumeLine.session_id
           /\ meta'[1].resume_command = ResumeLine.resume_command

C31_StopReturnsLatestMetadata == [][C31_Step]_vars

(* --------------------------- metadata rules ---------------------------- *)
\* the rules read as one chain: the session.resume rule, else the session_id
\* rule if session_id is unknown, else the rollout_path rule if rollout_path
\* is unknown
ChainCapture(m, pl) ==
  IF ~pl.dict THEN m
  ELSE IF Get(pl, "type") = "session.resume"
       THEN [session_id |-> ResumeValue(m.session_id, Get(pl, "session_id")),
             resume_command |-> ResumeValue(m.resume_command, Get(pl, "resume_command")),
             rollout_path |-> ResumeValue(m.rollout_path, Get(pl, "rollout_path"))]
  ELSE IF m.session_id = None
       THEN [m EXCEPT !.session_id = Fallback(pl, "session_id")]
  ELSE IF m.rollout_path = None
       THEN [m EXCEPT !.rollout_path = Fallback(pl, "rollout_path")]
  ELSE m

\* C32: the metadata rules are an else-if chain: a session.resume event is
\* handled by the first rule alone, and any other event by the session_id rule
\* or else by the rollout_path rule, so that one event that is not a
\* session.resume never sets both session_id and rollout_path
C32_Step ==
  \A pl \in Payloads :
     CaptureSessionMetadata(1, pl)
        => /\ meta'[1] = ChainCapture(meta[1], pl)
           /\ Get(pl, "type") # "session.resume"
                 => ~(/\ meta'[1].session_id # meta[1].session_id
                      /\ meta'[1].rollout_path # meta[1].rollout_path)

C32_RulesAreAChain == [][C32_Step]_vars

\* a payload none of whose metadata members, its own or those of "msg", is a string
NoStringFields(pl) ==
  /\ Get(pl, "session_id") \notin Strs
  /\ Get(pl, "resume_command") \notin Strs
  /\ Get(pl, "rollout_path") \notin Strs
  /\ Msg(pl).session_id \notin Strs
  /\ Msg(pl).rollout_path \notin Strs

\* the payloads that are not an object or carry no string metadata field
MalformedPayloads == {pl \in Payloads : ~pl.dict \/ NoStringFields(pl)}

\* C33: metadata capture returns for every payload shape, and a payload that
\* is not an object or has no string among its metadata fields leaves
\* session_id, resume_command and rollout_path as they were
C33_MalformedIgnored ==
  /\ ncapt < MaxCapt => \A pl \in Payloads : ENABLED CaptureSessionMetadata(1, pl)
  /\ \A pl \in MalformedPayloads : Capture(meta[1], pl) = meta[1]

\* every capture done, the session id learned by one of them and kept since,
\* the other two fields never set
C33_Witness ==
  /\ ncapt = MaxCapt
  /\ meta[1] = [NoMeta EXCEPT !.session_id = "a"]

(* --------------------------- context blocks ---------------------------- *)
\* an entry that build_block does not filter out
Qualifies(cell) == cell.str /\ cell.form \notin MagicForms

\* C34: in incremental mode (max_cells unset or not positive) a build_block
\* call without peek returns only qualifying entries whose index is greater
\* than last_seen and sets last_seen to the newest index, so that the same
\* call repeated with no cell executed in between returns nothing
C34_Step ==
  \A max_cells \in MaxCellsArgs, max_chars \in MaxCharsArgs :
     (~SlidingWindow(max_cells) /\ BuildBlock(max_cells, max_chars, FALSE, TRUE))
        => /\ \A i \in 1..Len(block') :
                 block'[i].idx > last_seen /\ Qualifies(History(block'[i].idx))
           /\ last_seen' = Len(In) - 1
           /\ last_seen = Len(In) - 1 => block' = <<>>
           /\ BlockFrom(last_seen', max_cells, max_chars) = <<>>

C34_IncrementalOnlyNew == [][C34_Step]_vars

\* an incremental call has returned the second cell alone, the first, which
\* qualifies too, having been seen before
C34_Witness ==
  /\ lastcall.kind = "build" /\ lastcall.ip /\ ~SlidingWindow(lastcall.max_cells)
  /\ Len(block) = 1 /\ block[1].idx = 2
  /\ Qualifies(History(1))
  /\ last_seen = 2

\* C35: no entry that invokes the system's own commands (the %%codex and
\* %%cleon_history cell magics, a text that starts with %, the run_cell_magic
\* and run_line_magic forms) is in a block that build_block returned, in
\* sliding-window mode or in incremental mode
C35_NoOwnCommands ==
  \A i \in 1..Len(block) : History(block[i].idx).form \notin MagicForms

\* a window of two cells has returned the later cell alone, the earlier one
\* being one of the system's commands
C35_Witness ==
  /\ lastcall.kind = "build" /\ lastcall.ip
  /\ SlidingWindow(lastcall.max_cells) /\ lastcall.max_cells.n = 2
  /\ Len(block) = 1 /\ block[1].idx = 2
  /\ History(1).str /\ History(1).form \in MagicForms

\* a text of n characters cut to max_chars: the first max_chars characters
\* and the marker if it is longer, the text itself otherwise
Cut(n, max_chars) ==
  IF max_chars.given /\ n > max_chars.n
  THEN [len |-> max_chars.n, truncated |-> TRUE]
  ELSE [len |-> n, truncated |-> FALSE]

\* C36: in every returned block the source and the output of each entry are
\* cut independently: a text longer than max_chars is its first max_chars
\* characters followed by the truncation marker, a text within the limit is
\* unchanged, and with max_chars unset nothing is cut
C36_CutIndependently ==
  \A i \in 1..Len(block) :
     /\ block[i].code = Cut(History(block[i].idx).len, lastcall.max_chars)
     /\ block[i].out = Cut(History(block[i].idx).out, lastcall.max_chars)

\* a block with an entry whose source is cut and whose output is not, and
\* one whose output is cut and whose source is not
C36_Witness ==
  /\ lastcall.max_chars.given
  /\ \E i \in 1..Len(block) : block[i].code.truncated /\ ~block[i].out.truncated
                                /\ block[i].out.len > 0
  /\ \E i \in 1..Len(block) : ~block[i].code.truncated /\ block[i].out.truncated

(* -------------------------- binary resolution -------------------------- *)
\* an existing file
IsFile(c) == c # None /\ ExpandUser(c) \in binary.files

\* C37: the binary a backend is constructed with is the first, in the order
\* explicit path, CLEON_BIN, packaged binary, PATH lookup, build directories,
\* that is an existing file; the construction fails with binary-not-found
\* only if none of them is
C37_FirstExistingFile ==
  binary.calls > 0 =>
     LET order == <<binary.explicit, binary.envcall, binary.pkg, binary.which, binary.target>>
         hits == {i \in 1..5 : IsFile(order[i])}
     IN IF hits = {} THEN binary.raised /\ binary.result = None
        ELSE /\ ~binary.raised
             /\ \E i \in hits : /\ \A j \in hits : i <= j
                                  /\ binary.result = ExpandUser(order[i])

\* an explicit path that is no file and a CLEON_BIN that is one, with a
\* different file on the PATH: the value of CLEON_BIN was taken
C37_Witness ==
  /\ binary.calls > 0
  /\ binary.explicit = "~/b" /\ "/home/b" \notin binary.files
  /\ binary.envcall = "a" /\ binary.result = "a"
  /\ binary.which = "a"

(* ------------------------------ template ------------------------------- *)
\* a written prompt that starts with the template
HasTemplate(raw) == Len(raw) >= Len(Template) /\ SubSeq(raw, 1, Len(Template)) = Template

\* C38: the template is in the prompt of the first turn written to each newly
\* started session and in no later turn of it, whether the turn is sent by a
\* prompt or by the /new command
C38_TemplateOnFirstTurnOnly ==
  \A p \in 1..nprocs :
     \A i \in PromptLines(p) :
        HasTemplate(procs[p].inp[i].raw) <=> (\A j \in PromptLines(p) : i <= j)

C40_Inv == \A r \in 1..nreq : r \in queued

C40_EveryPromptAnswered ==
  /\ []C40_Inv
  /\ \A r \in Requests : (display[r] = "queued") ~> (display[r] \in {"result", "error"})

====
